---- MODULE Spec2Model ----
(***************************************************************************)
(* Model of the resilient-request core of the "linked" command line client *)
(*   - withRetry / isRetryable           (src/utils/rate-limit.ts)         *)
(*   - LinkedInClient.request            (src/lib/client.ts)               *)
(*   - the error classes                 (src/lib/errors.ts)               *)
(*   - resolveCredentials                (src/lib/auth.ts)                 *)
(*   - getAccountCredentials             (src/lib/config.ts)               *)
(*   - extractCookiesFromBrowser         (src/lib/cookie-extract.ts)       *)
(*                                                                         *)
(*   - the account functions             (src/lib/config.ts)               *)
(*   - the paging helpers                (src/lib/pagination.ts)           *)
(*                                                                         *)
(* Five specifications share the module: Spec runs client calls through    *)
(* the retry loop, AuthSpec runs credential resolution, ClientSpec runs    *)
(* the client's methods and parsers, ParallelSpec runs two calls at once,  *)
(* ConfigSpec runs the account functions.                                  *)
(***************************************************************************)
EXTENDS Integers, Sequences, FiniteSets, TLC

VARIABLES
    \* ---- one withRetry(() => this.request(url)) call ----
    pc,          \* "idle" | "calling" | "sleeping" | "returned" | "thrown"
    options,     \* the RetryOptions argument of the running call
    attempt,     \* loop variable of withRetry
    delay,       \* local `delay` of withRetry (a JS number)
    lastError,   \* local `lastError` of withRetry
    resp,        \* what fetch did in the most recent attempt
    calls,       \* number of times fn (one HTTP call) was invoked in this call
    waits,       \* arguments of the sleep() calls of this call, in order
    caught,      \* classes of the errors the catch block saw, in order
    result,      \* how the call settled: value returned or error thrown
    parallel,    \* two withRetry calls in flight at once: for each the
                 \* locals of its own invocation and what it observed
    \* ---- credential resolution ----
    env,            \* process.env.LINKEDIN_LI_AT / LINKEDIN_JSESSIONID
    config,         \* what loadConfig() returns
    browsers,       \* which browser cookie stores hold a LinkedIn session
    currentAccount, \* account-context.ts module variable
    authOptions,    \* the AuthOptions argument of the last resolveCredentials
    authResult,     \* its outcome: cookies returned or error thrown, with
                    \* the log of its extractCookiesFromBrowser invocations
    configCall,     \* the last call of a config.ts account function: the
                    \* function, its name argument, whether it threw
    \* ---- a LinkedInClient and the method call it is serving ----
    client,      \* the instance: its cookies, headers, timeoutMs, delayMs
    method,      \* the method called, with its arguments
    reply,       \* what the transport answered to the call
    requests,    \* the requests the call handed to fetch, in order
    outcome      \* what the call returned or threw

retryVars == <<pc, options, attempt, delay, lastError, resp, calls, waits, caught,
               result, parallel>>
authVars  == <<env, config, browsers, currentAccount, authOptions, authResult,
               configCall>>
clientVars == <<client, method, reply, requests, outcome>>
vars      == <<pc, options, attempt, delay, lastError, resp, calls, waits, caught,
               result, parallel, env, config, browsers, currentAccount, authOptions, authResult,
               configCall, client, method, reply, requests, outcome>>

(***************************************************************************)
(* JavaScript numbers: an integer or NaN.                                  *)
(***************************************************************************)
Num(i) == [nan |-> FALSE, v |-> i]
NaN    == [nan |-> TRUE,  v |-> 0]

\* a * b
Times(a, b) == IF a.nan \/ b.nan THEN NaN ELSE Num(a.v * b.v)

\* Math.min(a, b)
MathMin(a, b) == IF a.nan \/ b.nan THEN NaN ELSE IF a.v <= b.v THEN a ELSE b

(***************************************************************************)
(* Text.  A text is a sequence of fragments; String.includes(marker) holds *)
(* when the marker is one of the fragments.                                *)
(***************************************************************************)
Includes(text, marker) == \E i \in 1..Len(text) : text[i] = marker

\* Number.parseInt(s, 10) over a sequence of characters: leading blanks are
\* skipped, an optional sign is read, then digits up to the first non-digit;
\* no digit at all gives NaN.
Digits == {"0", "1", "2", "3", "4", "5", "6", "7", "8", "9"}

DigitVal(c) ==
    CASE c = "0" -> 0 [] c = "1" -> 1 [] c = "2" -> 2 [] c = "3" -> 3
      [] c = "4" -> 4 [] c = "5" -> 5 [] c = "6" -> 6 [] c = "7" -> 7
      [] c = "8" -> 8 [] c = "9" -> 9

RECURSIVE SkipBlanks(_)
SkipBlanks(s) == IF s # <<>> /\ Head(s) = " " THEN SkipBlanks(Tail(s)) ELSE s

RECURSIVE ReadDigits(_, _)
ReadDigits(s, acc) ==
    IF s # <<>> /\ Head(s) \in Digits
    THEN ReadDigits(Tail(s), acc * 10 + DigitVal(Head(s)))
    ELSE acc

parseInt(str) ==
    LET s    == SkipBlanks(str)
        neg  == s # <<>> /\ Head(s) = "-"
        body == IF s # <<>> /\ Head(s) \in {"-", "+"} THEN Tail(s) ELSE s
    IN  IF body = <<>> \/ Head(body) \notin Digits
        THEN NaN
        ELSE Num((IF neg THEN -1 ELSE 1) * ReadDigits(body, 0))

(***************************************************************************)
(* errors.ts                                                               *)
(***************************************************************************)
NoError == [cls |-> "none", message |-> <<>>, hasStatusCode |-> FALSE,
            statusCode |-> 0, endpoint |-> "", retryAfter |-> Num(0)]

\* new LinkedInError(message, statusCode, endpoint)
LinkedInError(message, statusCode, endpoint) ==
    [cls |-> "LinkedInError", message |-> message, hasStatusCode |-> TRUE,
     statusCode |-> statusCode, endpoint |-> endpoint, retryAfter |-> Num(0)]

DefaultAuthMessage == <<"Authentication failed. Your cookies may be expired.">>

\* new AuthenticationError(message): statusCode 401 whatever the message
AuthenticationError(message) ==
    [cls |-> "AuthenticationError", message |-> message, hasStatusCode |-> TRUE,
     statusCode |-> 401, endpoint |-> "", retryAfter |-> Num(0)]

\* new RateLimitError(retryAfter)
RateLimitError(retryAfter) ==
    [cls |-> "RateLimitError",
     message |-> <<"Rate limited by LinkedIn. Please wait", "seconds before retrying.">>,
     hasStatusCode |-> TRUE, statusCode |-> 429, endpoint |-> "",
     retryAfter |-> retryAfter]

ChallengeError ==
    [cls |-> "ChallengeError",
     message |-> <<"LinkedIn requires a challenge/CAPTCHA verification.">>,
     hasStatusCode |-> TRUE, statusCode |-> 403, endpoint |-> "",
     retryAfter |-> Num(0)]

\* new NotFoundError(resource)
NotFoundError(resource) ==
    [cls |-> "NotFoundError", message |-> <<resource, "not found.">>,
     hasStatusCode |-> TRUE, statusCode |-> 404, endpoint |-> "",
     retryAfter |-> Num(0)]

\* An Error that is no LinkedInError (thrown by fetch or by body decoding):
\* it has no statusCode property.
PlainError(cls, message) ==
    [cls |-> cls, message |-> message, hasStatusCode |-> FALSE,
     statusCode |-> 0, endpoint |-> "", retryAfter |-> Num(0)]

(***************************************************************************)
(* What one fetch() can do: answer with a response, reject with a          *)
(* transport error, or be aborted by the per-request timeout.              *)
(***************************************************************************)
NoHeader == [present |-> FALSE, value |-> <<>>]
Header(chars) == [present |-> TRUE, value |-> chars]

Response(status, statusText, body, retryAfter, contentType, decodes) ==
    [kind |-> "response", status |-> status, statusText |-> statusText,
     body |-> body, retryAfter |-> retryAfter, contentType |-> contentType,
     decodes |-> decodes, error |-> NoError]

Rejected(error) ==
    [kind |-> "rejected", status |-> 0, statusText |-> <<>>, body |-> <<>>,
     retryAfter |-> NoHeader, contentType |-> "", decodes |-> FALSE,
     error |-> error]

\* setTimeout(() => controller.abort(), timeoutMs) fired first: fetch rejects
\* with the signal's abort reason, whose text depends on the runtime.
Aborted(message) ==
    [kind |-> "aborted", status |-> 0, statusText |-> <<>>, body |-> <<>>,
     retryAfter |-> NoHeader, contentType |-> "", decodes |-> FALSE,
     error |-> PlainError("AbortError", message)]

NoFetch == Rejected(NoError)

\* What fetch may do in one attempt: answer (a reason phrase is whatever the
\* answering server or proxy sends), reject, or be aborted by the timeout.
FetchOutcomes ==
    LET ForbiddenBodies ==
            {<<"access denied">>,
             <<"challenge", "verification required">>,
             <<"please solve the", "captcha">>}
        RetryAfterHeaders ==
            {NoHeader, Header(<<"0">>), Header(<<"1">>), Header(<<"6", "1">>),
             Header(<<"1", "2", "0">>), Header(<<" ", "2", "s">>),
             Header(<<"W", "e", "d">>)}
        OtherStatuses == {304, 400, 418, 499, 500, 503, 599}
        TransportErrors ==
            {PlainError("TypeError", <<"fetch failed">>),
             PlainError("Error", <<"read", "ECONNRESET">>),
             PlainError("Error", <<"connect", "ETIMEDOUT">>),
             PlainError("Error", <<"connect", "ECONNREFUSED">>),
             PlainError("Error", <<"getaddrinfo", "ENOTFOUND">>)}
        AbortMessages ==
            {<<"This operation was aborted">>, <<"The operation was aborted.">>}
    IN  {Response(200, <<"OK">>, <<>>, NoHeader, "application/json", TRUE),
         Response(200, <<"OK">>, <<>>, NoHeader, "application/json", FALSE),
         Response(201, <<"Created">>, <<>>, NoHeader, "text/html", TRUE),
         Response(401, <<"Unauthorized">>, <<>>, NoHeader, "", FALSE),
         Response(404, <<"Not Found">>, <<>>, NoHeader, "", FALSE),
         Response(400, <<"ECONNRESET">>, <<>>, NoHeader, "", FALSE)}
        \cup {Response(403, <<"Forbidden">>, b, NoHeader, "text/html", FALSE) :
                b \in ForbiddenBodies}
        \cup {Response(429, <<"Too Many Requests">>, <<>>, h, "", FALSE) :
                h \in RetryAfterHeaders}
        \cup {Response(s, <<"">>, <<>>, NoHeader, "", FALSE) : s \in OtherStatuses}
        \cup {Rejected(e) : e \in TransportErrors}
        \cup {Aborted(m) : m \in AbortMessages}

(***************************************************************************)
(* LinkedInClient.request: one fetch, then the status mapping.  The pacing *)
(* sleep before the fetch (delayMs plus jitter) touches no state and is    *)
(* left out.                                                               *)
(***************************************************************************)
Returned(value) == [ok |-> TRUE, value |-> value, error |-> NoError]
Threw(error)    == [ok |-> FALSE, value |-> "", error |-> error]

Url == "https://www.linkedin.com/voyager/api/me"

\* response.ok
ResponseOk(status) == status >= 200 /\ status <= 299

\* headers.get("retry-after") ?? "60"
RetryAfterText(f) == IF f.retryAfter.present THEN f.retryAfter.value ELSE <<"6", "0">>

\* request() without the inspection of a 403 body
requestNoBodyCheck(url, f) ==
    IF f.kind # "response" THEN Threw(f.error)
    ELSE IF f.status = 401 \/ f.status = 403
         THEN Threw(AuthenticationError(DefaultAuthMessage))
    ELSE IF f.status = 404 THEN Threw(NotFoundError("Resource"))
    ELSE IF f.status = 429 THEN Threw(RateLimitError(parseInt(RetryAfterText(f))))
    ELSE IF ~ResponseOk(f.status)
         THEN Threw(LinkedInError(<<"LinkedIn API error:", ToString(f.status)>> \o f.statusText,
                                  f.status, url))
    ELSE IF Includes(<<f.contentType>>, "application/json")
         THEN IF f.decodes THEN Returned("json")
              ELSE Threw(PlainError("SyntaxError", <<"Unexpected token">>))
    ELSE Returned("text")

request(url, f) ==
    IF f.kind # "response" THEN Threw(f.error)
    ELSE IF f.status = 401 THEN Threw(AuthenticationError(DefaultAuthMessage))
    ELSE IF f.status = 403
         THEN IF Includes(f.body, "challenge") \/ Includes(f.body, "captcha")
              THEN Threw(ChallengeError)
              ELSE Threw(AuthenticationError(
                        <<"Access forbidden. Your session may be restricted.">>))
    ELSE IF f.status = 404 THEN Threw(NotFoundError("Resource"))
    ELSE IF f.status = 429 THEN Threw(RateLimitError(parseInt(RetryAfterText(f))))
    ELSE IF ~ResponseOk(f.status)
         THEN Threw(LinkedInError(<<"LinkedIn API error:", ToString(f.status)>> \o f.statusText,
                                  f.status, url))
    ELSE IF Includes(<<f.contentType>>, "application/json")
         THEN IF f.decodes THEN Returned("json")
              ELSE Threw(PlainError("SyntaxError", <<"Unexpected token">>))
    ELSE Returned("text")

(***************************************************************************)
(* rate-limit.ts                                                           *)
(***************************************************************************)
DEFAULT_INITIAL_DELAY == 1000
DEFAULT_MAX_DELAY == 60000
DEFAULT_MAX_RETRIES == 3
DEFAULT_MULTIPLIER == 2

\* Largest maxRetries a caller passes in the model.
MaxRetriesBound == 3

\* options?.field ?? fallback
OrDefault(o, field, fallback) == IF field \in o.given THEN o[field] ELSE fallback

RetryOptions(given, maxRetries, initialDelay, maxDelay, multiplier) ==
    [given |-> given, maxRetries |-> maxRetries, initialDelay |-> initialDelay,
     maxDelay |-> maxDelay, multiplier |-> multiplier]

\* withRetry(fn) as the client calls it, and withRetry(fn, {...}) as the
\* tests and library users call it.
NoOptions == RetryOptions({}, 0, 0, 0, 0)

OptionSets ==
    {NoOptions,
     RetryOptions({"maxRetries", "initialDelay"}, 2, 10, 0, 0),
     RetryOptions({"maxRetries"}, 0, 0, 0, 0),
     RetryOptions({"maxRetries", "initialDelay", "maxDelay", "multiplier"},
                  MaxRetriesBound, 500, 4000, 3)}

maxRetries(o)   == OrDefault(o, "maxRetries", DEFAULT_MAX_RETRIES)
initialDelay(o) == OrDefault(o, "initialDelay", DEFAULT_INITIAL_DELAY)
maxDelay(o)     == OrDefault(o, "maxDelay", DEFAULT_MAX_DELAY)
multiplier(o)   == OrDefault(o, "multiplier", DEFAULT_MULTIPLIER)

\* isRetryable() retrying every error status, not only 5xx
isRetryableAnyErrorStatus(error) ==
    IF error.cls = "RateLimitError" THEN TRUE
    ELSE IF Includes(error.message, "ECONNRESET") THEN TRUE
    ELSE IF Includes(error.message, "ETIMEDOUT") THEN TRUE
    ELSE IF Includes(error.message, "ECONNREFUSED") THEN TRUE
    ELSE IF Includes(error.message, "fetch failed") THEN TRUE
    ELSE IF error.hasStatusCode
         THEN error.statusCode >= 400 /\ error.statusCode < 600
    ELSE FALSE

isRetryable(error) ==
    IF error.cls = "RateLimitError" THEN TRUE
    ELSE IF Includes(error.message, "ECONNRESET") THEN TRUE
    ELSE IF Includes(error.message, "ETIMEDOUT") THEN TRUE
    ELSE IF Includes(error.message, "ECONNREFUSED") THEN TRUE
    ELSE IF Includes(error.message, "fetch failed") THEN TRUE
    ELSE IF error.hasStatusCode
         THEN error.statusCode >= 500 /\ error.statusCode < 600
    ELSE FALSE

\* for (let attempt = 0; attempt <= maxRetries; attempt++)
LoopRuns(a, o) == a <= maxRetries(o)

\* the catch block giving up one attempt early
CaughtOneShort(error, a, o) ==
    IF ~isRetryable(error) THEN "throw"
    ELSE IF a + 1 = maxRetries(o) THEN "break"
    ELSE "sleep"

\* the catch block without the classification of the error
CaughtUnclassified(error, a, o) ==
    IF a = maxRetries(o) THEN "break" ELSE "sleep"

\* the catch block without the test for the last attempt
CaughtNoBreak(error, a, o) ==
    IF ~isRetryable(error) THEN "throw" ELSE "sleep"

\* The catch block up to the sleep: what happens to a failed attempt.
\*   "throw" - not retryable, re-thrown at once
\*   "break" - retryable but this was the last attempt
\*   "sleep" - wait, then attempt again
Caught(error, a, o) ==
    IF ~isRetryable(error) THEN "throw"
    ELSE IF a = maxRetries(o) THEN "break"
    ELSE "sleep"

\* the catch block without the retry-after override
DelayAfterBackoffOnly(error, d) == d

\* if (lastError instanceof RateLimitError) delay = lastError.retryAfter * 1000
DelayAfter(error, d) ==
    IF error.cls = "RateLimitError" THEN Times(error.retryAfter, Num(1000)) ELSE d

\* sleep(delay) without the cap
SleepForUncapped(d, o) == d

\* the argument of sleep(): Math.min(delay, maxDelay)
SleepFor(d, o) == MathMin(d, Num(maxDelay(o)))

\* the delay left as it is after a sleep
BackoffNone(d, o) == d

\* delay *= multiplier
Backoff(d, o) == Times(d, Num(multiplier(o)))

NoResult == [ok |-> FALSE, value |-> "", error |-> NoError]

\* A client method calls withRetry(() => this.request(url), options).
Call(o) ==
    /\ pc = "idle"
    /\ options' = o
    /\ attempt' = 0
    /\ delay' = Num(initialDelay(o))
    /\ lastError' = NoError
    /\ resp' = NoFetch
    /\ calls' = 0
    /\ waits' = <<>>
    /\ caught' = <<>>
    /\ result' = NoResult
    /\ pc' = IF LoopRuns(0, o) THEN "calling" ELSE "thrown"
    /\ UNCHANGED authVars
    /\ UNCHANGED parallel
    /\ UNCHANGED clientVars

\* One pass through the try block: fn() runs request(), whose fetch does f.
Attempt(f) ==
    /\ pc = "calling"
    /\ LET r == request(Url, f)
           c == Caught(r.error, attempt, options)
           d == DelayAfter(r.error, delay)
       IN  /\ calls' = calls + 1
           /\ resp' = f
           /\ IF r.ok
              THEN /\ pc' = "returned"
                   /\ result' = r
                   /\ UNCHANGED <<lastError, delay, waits, caught>>
              ELSE /\ lastError' = r.error
                   /\ caught' = Append(caught, r.error.cls)
                   /\ IF c = "sleep"
                      THEN /\ pc' = "sleeping"
                           /\ delay' = d
                           /\ waits' = Append(waits, SleepFor(d, options))
                           /\ UNCHANGED result
                      ELSE /\ pc' = "thrown"
                           /\ result' = Threw(r.error)
                           /\ UNCHANGED <<delay, waits>>
    /\ UNCHANGED <<options, attempt>>
    /\ UNCHANGED authVars
    /\ UNCHANGED parallel
    /\ UNCHANGED clientVars

\* sleep() resolves: the delay backs off and the loop goes round.
Wake ==
    /\ pc = "sleeping"
    /\ delay' = Backoff(delay, options)
    /\ attempt' = attempt + 1
    /\ IF LoopRuns(attempt + 1, options)
       THEN pc' = "calling" /\ UNCHANGED result
       ELSE pc' = "thrown" /\ result' = Threw(lastError)
    /\ UNCHANGED <<options, lastError, resp, calls, waits, caught>>
    /\ UNCHANGED authVars
    /\ UNCHANGED parallel
    /\ UNCHANGED clientVars

(***************************************************************************)
(* Optional strings: Undefined stands for a missing value.  A value is     *)
(* truthy when it is neither missing nor the empty string.                 *)
(***************************************************************************)
Undefined == "<undefined>"

Truthy(x) == x # Undefined /\ x # ""

\* a ?? b
Nullish(a, b) == IF a # Undefined THEN a ELSE b

CookieSet(li_at, jsessionid) == [li_at |-> li_at, jsessionid |-> jsessionid]

NoCookies == CookieSet(Undefined, Undefined)

(***************************************************************************)
(* cookie-extract.ts                                                       *)
(***************************************************************************)
defaultOrder == <<"safari", "chrome", "firefox">>

Browsers == {"safari", "chrome", "firefox"}

\* What an extractor reads from a browser's store that holds a session.
BrowserCookies(b) ==
    CASE b = "safari"  -> CookieSet("safari-token", "safari-session")
      [] b = "chrome"  -> CookieSet("chrome-token", "chrome-session")
      [] b = "firefox" -> CookieSet("firefox-token", "firefox-session")

\* new CookieExtractionError(source, cause): the statusCode property is
\* there but undefined (0 here: below every status the code compares with)
CookieExtractionError(source, cause) ==
    [cls |-> "CookieExtractionError",
     message |-> <<"Failed to extract cookies from", source, cause>>,
     hasStatusCode |-> TRUE, statusCode |-> 0, endpoint |-> "",
     retryAfter |-> Num(0)]

Extracted(cookies, tried) ==
    [ok |-> TRUE, cookies |-> cookies, error |-> NoError, tried |-> tried]

ExtractFailed(error, tried) ==
    [ok |-> FALSE, cookies |-> NoCookies, error |-> error, tried |-> tried]

\* for (const browser of defaultOrder): the first extractor with a result.
RECURSIVE TryInOrder(_, _, _)
TryInOrder(order, tried, br) ==
    IF order = <<>>
    THEN ExtractFailed(CookieExtractionError("any browser",
             "Could not find LinkedIn cookies in Safari, Chrome, or Firefox."), tried)
    ELSE IF Head(order) \in br
         THEN Extracted(BrowserCookies(Head(order)), Append(tried, Head(order)))
         ELSE TryInOrder(Tail(order), Append(tried, Head(order)), br)

\* br: the browsers whose store holds a session (their extractor returns a
\* CookieSet; the others' return null).  extractors is an object literal,
\* so extractors["constructor"] is the inherited Object function: it is
\* called as the extractor and its result, the empty object {}, is returned
\* as the CookieSet.
extractCookiesFromBrowser(source, br) ==
    IF Truthy(source) /\ source # "env" /\ source # "config"
    THEN IF source \notin Browsers
         THEN IF source = "constructor"
              THEN Extracted(NoCookies, <<source>>)
              ELSE ExtractFailed(CookieExtractionError(source,
                       "Unknown browser source."), <<>>)
         ELSE IF source \notin br
              THEN ExtractFailed(CookieExtractionError(source,
                       "Could not find LinkedIn cookies."), <<source>>)
              ELSE Extracted(BrowserCookies(source), <<source>>)
    ELSE TryInOrder(defaultOrder, <<>>, br)

(***************************************************************************)
(* config.ts                                                               *)
(***************************************************************************)
AccountNames == {"work", "personal"}

AccountConfig(li_at, jsessionid, cookieSource) ==
    [exists |-> TRUE, li_at |-> li_at, jsessionid |-> jsessionid,
     cookieSource |-> cookieSource]

NoAccount ==
    [exists |-> FALSE, li_at |-> Undefined, jsessionid |-> Undefined,
     cookieSource |-> Undefined]

\* config.accounts: undefined, or a map from names to accounts
NoAccounts == [defined |-> FALSE, map |-> [n \in AccountNames |-> NoAccount]]

Accounts(work, personal) ==
    [defined |-> TRUE,
     map |-> [n \in AccountNames |-> IF n = "work" THEN work ELSE personal]]

\* config.accounts?.[name]
AccountOf(cfg, name) ==
    IF cfg.accounts.defined /\ name \in AccountNames
    THEN cfg.accounts.map[name]
    ELSE NoAccount

\* Object.keys(config.accounts)
AccountKeys(cfg) == {n \in AccountNames : cfg.accounts.map[n].exists}

getAccountCredentialsEitherField(cfg, name) ==
    LET account == AccountOf(cfg, name)
    IN  IF ~account.exists THEN [found |-> FALSE, cookies |-> NoCookies]
        ELSE IF Truthy(account.li_at) \/ Truthy(account.jsessionid)
             THEN [found |-> TRUE,
                   cookies |-> CookieSet(account.li_at, account.jsessionid)]
             ELSE [found |-> FALSE, cookies |-> NoCookies]

getAccountCredentials(cfg, name) ==
    LET account == AccountOf(cfg, name)
    IN  IF ~account.exists THEN [found |-> FALSE, cookies |-> NoCookies]
        ELSE IF Truthy(account.li_at) /\ Truthy(account.jsessionid)
             THEN [found |-> TRUE,
                   cookies |-> CookieSet(account.li_at, account.jsessionid)]
             ELSE [found |-> FALSE, cookies |-> NoCookies]

(***************************************************************************)
(* auth.ts: resolveCredentials, tier by tier.  Each tier either settles    *)
(* the call or falls through to the rest.                                  *)
(***************************************************************************)
AuthOptions(cookies, cookieSource, account) ==
    [cookies |-> cookies, cookieSource |-> cookieSource, account |-> account]

Resolved(cookies, log) ==
    [status |-> "returned", cookies |-> cookies, error |-> NoError,
     extractions |-> log]

Failed(error, log) ==
    [status |-> "thrown", cookies |-> NoCookies, error |-> error,
     extractions |-> log]

NotResolved == [status |-> "none", cookies |-> NoCookies, error |-> NoError,
                extractions |-> <<>>]

\* One entry of the log of extractCookiesFromBrowser invocations.
Extraction(site, source, x) ==
    [site |-> site, source |-> source, ok |-> x.ok, error |-> x.error,
     tried |-> x.tried]

\* the account name taken from the ambient account before the option
accountNameAmbientFirst(o, cur, cfg) ==
    Nullish(cur, Nullish(o.account, cfg.defaultAccount))

\* options?.account ?? getCurrentAccount() ?? config.defaultAccount
accountName(o, cur, cfg) == Nullish(o.account, Nullish(cur, cfg.defaultAccount))

\* available.join(", ") || "(none)"
JoinKeys(keys) ==
    IF keys = {} THEN "(none)"
    ELSE IF keys = {"work"} THEN "work"
    ELSE IF keys = {"personal"} THEN "personal"
    ELSE "work, personal"

AccountNotFound(name, available) ==
    AuthenticationError(<<"Account not found.", name, "Available accounts:",
                          JoinKeys(available)>>)

\* 5. Browser cookie extraction, its failure wrapped
browserTierDefaultMessage(o, cfg, br, log) ==
    LET x == extractCookiesFromBrowser(Nullish(o.cookieSource, cfg.cookieSource), br)
        l == Append(log, Extraction("browser", Nullish(o.cookieSource, cfg.cookieSource), x))
    IN  IF x.ok THEN Resolved(x.cookies, l)
        ELSE Failed(AuthenticationError(<<"Failed to resolve LinkedIn credentials.">>), l)

browserTier(o, cfg, br, log) ==
    LET cookieSource == Nullish(o.cookieSource, cfg.cookieSource)
        x == extractCookiesFromBrowser(cookieSource, br)
        l == Append(log, Extraction("browser", cookieSource, x))
    IN  IF x.ok THEN Resolved(x.cookies, l)
        ELSE Failed(AuthenticationError(x.error.message), l)

\* 4. Legacy flat config credentials, then tier 5
legacyTier(o, cfg, br, log) ==
    IF Truthy(cfg.li_at) /\ Truthy(cfg.jsessionid)
    THEN Resolved(CookieSet(cfg.li_at, cfg.jsessionid), log)
    ELSE browserTier(o, cfg, br, log)

\* the named-account tier consulting the legacy pair before the account's
\* own cookieSource
accountTierLegacyFirst(o, cfg, cur, br) ==
    LET name  == accountName(o, cur, cfg)
        creds == getAccountCredentials(cfg, name)
        account == AccountOf(cfg, name)
    IN  IF Truthy(name) /\ cfg.accounts.defined
        THEN IF creds.found THEN Resolved(creds.cookies, <<>>)
             ELSE IF ~account.exists
                  THEN Failed(AccountNotFound(name, AccountKeys(cfg)), <<>>)
             ELSE IF Truthy(cfg.li_at) /\ Truthy(cfg.jsessionid)
                  THEN Resolved(CookieSet(cfg.li_at, cfg.jsessionid), <<>>)
             ELSE IF Truthy(account.cookieSource)
                  THEN LET x == extractCookiesFromBrowser(account.cookieSource, br)
                           l == <<Extraction("account", account.cookieSource, x)>>
                       IN  IF x.ok THEN Resolved(x.cookies, l)
                           ELSE legacyTier(o, cfg, br, l)
             ELSE legacyTier(o, cfg, br, <<>>)
        ELSE legacyTier(o, cfg, br, <<>>)

\* 3. Named account from config, then tiers 4 and 5
accountTier(o, cfg, cur, br) ==
    LET name  == accountName(o, cur, cfg)
        creds == getAccountCredentials(cfg, name)
        account == AccountOf(cfg, name)
    IN  IF Truthy(name) /\ cfg.accounts.defined
        THEN IF creds.found THEN Resolved(creds.cookies, <<>>)
             ELSE IF ~account.exists
                  THEN Failed(AccountNotFound(name, AccountKeys(cfg)), <<>>)
             ELSE IF Truthy(account.cookieSource)
                  THEN LET x == extractCookiesFromBrowser(account.cookieSource, br)
                           l == <<Extraction("account", account.cookieSource, x)>>
                       IN  IF x.ok THEN Resolved(x.cookies, l)
                           ELSE legacyTier(o, cfg, br, l)
             ELSE legacyTier(o, cfg, br, <<>>)
        ELSE legacyTier(o, cfg, br, <<>>)

\* resolveCredentials consulting the named account before the environment
resolveCredentialsAccountFirst(o, e, cfg, cur, br) ==
    IF Truthy(o.cookies.li_at) /\ Truthy(o.cookies.jsessionid)
    THEN Resolved(o.cookies, <<>>)
    ELSE IF Truthy(accountName(o, cur, cfg)) /\ getAccountCredentials(cfg, accountName(o, cur, cfg)).found
         THEN accountTier(o, cfg, cur, br)
    ELSE IF Truthy(e.li_at) /\ Truthy(e.jsessionid)
         THEN Resolved(CookieSet(e.li_at, e.jsessionid), <<>>)
    ELSE accountTier(o, cfg, cur, br)

\* 1. explicit cookies, 2. environment variables, then tiers 3 to 5
resolveCredentials(o, e, cfg, cur, br) ==
    IF Truthy(o.cookies.li_at) /\ Truthy(o.cookies.jsessionid)
    THEN Resolved(o.cookies, <<>>)
    ELSE IF Truthy(e.li_at) /\ Truthy(e.jsessionid)
         THEN Resolved(CookieSet(e.li_at, e.jsessionid), <<>>)
    ELSE accountTier(o, cfg, cur, br)

(***************************************************************************)
(* Decoded response bodies.  A JavaScript value is undefined, a string (a  *)
(* sequence of fragments; for a URN, its colon-separated segments) or a    *)
(* number.                                                                 *)
(***************************************************************************)
JsUndefined == [t |-> "undefined", s |-> <<>>, n |-> 0]
JsString(s) == [t |-> "string", s |-> s, n |-> 0]
JsNumber(n) == [t |-> "number", s |-> <<>>, n |-> n]
JsNull      == [t |-> "null", s |-> <<>>, n |-> 0]

\* a ?? b, of values and of date properties
JsOr(a, b) == IF a.t \notin {"undefined", "null"} THEN a ELSE b

\* truthiness of a value
JsTruthy(v) == (v.t = "string" /\ v.s # <<>>) \/ (v.t = "number" /\ v.n # 0)

\* str(value): "" for null and undefined, a string as it is, String(n) for
\* a number
str(value) ==
    IF value.t \in {"undefined", "null"} THEN <<>>
    ELSE IF value.t = "string" THEN value.s
    ELSE <<ToString(value.n)>>

\* num(value): 0 for null and undefined, Number(value) otherwise, 0 for NaN
num(value) ==
    IF value.t \in {"undefined", "null"} THEN 0
    ELSE IF value.t = "number" THEN value.n
    ELSE IF value.s = <<>> THEN 0
    ELSE IF \A i \in 1..Len(value.s) : value.s[i] \in Digits
         THEN ReadDigits(value.s, 0)
    ELSE 0

\* a date property: undefined, or an object with year and month
NoDate == [t |-> "undefined", year |-> JsUndefined, month |-> JsUndefined]
DateObject(year, month) == [t |-> "object", year |-> year, month |-> month]
NullDate == [t |-> "null", year |-> JsUndefined, month |-> JsUndefined]

\* the participants property: not an array, or an array whose items are
\* bare strings, objects (with entityUrn and "*miniProfile") or other values
Participant(kind, urn, entityUrn, miniProfile) ==
    [kind |-> kind, urn |-> urn, entityUrn |-> entityUrn, miniProfile |-> miniProfile]

\* An entity of `included` (or `data`) with the properties the parsers
\* read; every other property is undefined.
NoEntity ==
    [type |-> JsUndefined, entityUrn |-> JsUndefined, urn |-> JsUndefined,
     publicIdentifier |-> JsUndefined, firstName |-> JsUndefined,
     title |-> JsUndefined, name |-> JsUndefined, headline |-> JsUndefined,
     text |-> JsUndefined,
     connectionCount |-> JsUndefined, participants |-> [isArray |-> FALSE, items |-> <<>>],
     timePeriod |-> [startDate |-> NoDate, endDate |-> NoDate],
     startDate |-> NoDate, endDate |-> NoDate]

\* item.$type?.toString().includes(marker)
TypeIncludes(item, marker) == item.type.t = "string" /\ Includes(item.type.s, marker)

\* item.entityUrn?.toString().includes(marker)
UrnIncludes(item, marker) ==
    item.entityUrn.t = "string" /\ Includes(item.entityUrn.s, marker)

\* str(item.entityUrn).split(":").pop() ?? ""
LastSegment(item) ==
    LET u == str(item.entityUrn) IN IF u = <<>> THEN "" ELSE u[Len(u)]

\* array.map(f) over array.filter(keep)
MapSeq(s, f(_)) == [i \in 1..Len(s) |-> f(s[i])]

\* parseDate(d)
parseDate(d) ==
    IF d.t # "object" THEN DateObject(JsNumber(0), JsUndefined)
    ELSE DateObject(JsNumber(num(d.year)),
                    IF d.month.t \notin {"undefined", "null"} THEN JsNumber(num(d.month))
                    ELSE JsUndefined)

\* parseExperience reading the end of a position off timePeriod only
parseExperienceTimePeriodOnly(included) ==
    LET keep(item) == TypeIncludes(item, "Position") \/ TypeIncludes(item, "position")
        one(item) ==
            [title |-> JsString(str(item.title)),
             startDate |-> parseDate(JsOr(item.timePeriod.startDate, item.startDate)),
             endDate |-> IF item.timePeriod.endDate.t = "object"
                            \/ item.endDate.t = "object"
                         THEN parseDate(JsOr(item.timePeriod.endDate, item.endDate))
                         ELSE NullDate,
             current |-> item.timePeriod.endDate.t # "object"]
    IN  MapSeq(SelectSeq(included, keep), one)

\* parseExperience(included)
parseExperience(included) ==
    LET keep(item) == TypeIncludes(item, "Position") \/ TypeIncludes(item, "position")
        one(item) ==
            [title |-> JsString(str(item.title)),
             startDate |-> parseDate(JsOr(item.timePeriod.startDate, item.startDate)),
             endDate |-> IF item.timePeriod.endDate.t = "object"
                            \/ item.endDate.t = "object"
                         THEN parseDate(JsOr(item.timePeriod.endDate, item.endDate))
                         ELSE NullDate,
             current |-> item.timePeriod.endDate.t # "object"
                         /\ item.endDate.t # "object"]
    IN  MapSeq(SelectSeq(included, keep), one)

\* parseEducation(included)
parseEducation(included) ==
    LET keep(item) == TypeIncludes(item, "Education") \/ TypeIncludes(item, "education")
        one(item) ==
            [schoolName |-> JsString(str(item.name)),
             startDate |-> parseDate(JsOr(item.timePeriod.startDate, item.startDate)),
             endDate |-> IF item.timePeriod.endDate.t = "object"
                            \/ item.endDate.t = "object"
                         THEN parseDate(JsOr(item.timePeriod.endDate, item.endDate))
                         ELSE NullDate]
    IN  MapSeq(SelectSeq(included, keep), one)

\* A decoded body: data (an object or missing) and included.
Envelope(data, included) == [data |-> data, included |-> included]

NoData == [defined |-> FALSE, e |-> NoEntity]
Data(e) == [defined |-> TRUE, e |-> e]

\* included.find(keep) ?? d
FindOr(included, keep(_), d) ==
    LET hits == SelectSeq(included, keep) IN IF hits # <<>> THEN hits[1] ELSE d

\* parseProfile(data).  With data.data missing the first property that is
\* undefined on the entity found is looked up on undefined: a TypeError
\* (every entity lacks some property parseProfile reads).
parseProfile(data) ==
    LET d == data.data.e
        keep(item) == TypeIncludes(item, "Profile") \/ TypeIncludes(item, "MiniProfile")
        p == FindOr(data.included, keep, d)
    IN  IF ~data.data.defined THEN Threw(PlainError("TypeError", <<"Cannot read properties of undefined">>))
        ELSE Returned(
            [publicIdentifier |->
                 JsString(str(JsOr(p.publicIdentifier, d.publicIdentifier))),
             firstName |-> JsString(str(JsOr(p.firstName, d.firstName))),
             headline |-> JsString(str(JsOr(p.headline, d.headline))),
             connectionCount |->
                 JsNumber(num(JsOr(p.connectionCount, d.connectionCount))),
             entityUrn |-> JsString(str(JsOr(p.entityUrn, d.entityUrn))),
             experience |-> parseExperience(data.included),
             education |-> parseEducation(data.included)])

\* parseFeedUpdates(data)
parseFeedUpdates(data) ==
    LET keep(item) ==
            /\ TypeIncludes(item, "Update") \/ UrnIncludes(item, "update")
            /\ str(JsOr(item.entityUrn, item.urn)) # <<>>
        one(item) ==
            [urn |-> str(JsOr(item.entityUrn, item.urn)),
             text |-> str(item.text),
             postUrl |-> <<"https://www.linkedin.com/feed/update/">>
                           \o str(JsOr(item.entityUrn, item.urn))]
    IN  MapSeq(SelectSeq(data.included, keep), one)

\* parseConnections(data)
parseConnections(data) ==
    LET keep(item) ==
            TypeIncludes(item, "MiniProfile") \/ JsTruthy(item.publicIdentifier)
        one(item) ==
            [publicIdentifier |-> str(item.publicIdentifier),
             firstName |-> str(item.firstName),
             entityUrn |-> str(item.entityUrn)]
        kept(c) == c.publicIdentifier # <<>>
    IN  SelectSeq(MapSeq(SelectSeq(data.included, keep), one), kept)

\* parseInvitations(data); the entities have no id property
parseInvitations(data) ==
    LET keep(item) ==
            TypeIncludes(item, "Invitation") \/ UrnIncludes(item, "invitation")
        one(item) ==
            [id |-> LastSegment(item), entityUrn |-> str(item.entityUrn),
             message |-> str(item.text)]
        kept(i) == i.entityUrn # <<>>
    IN  SelectSeq(MapSeq(SelectSeq(data.included, keep), one), kept)

\* parseMessages(data, conversationId); text stands for body.text
parseMessages(data, conversationId) ==
    LET keep(item) ==
            \/ TypeIncludes(item, "MessageEvent")
            \/ TypeIncludes(item, "Event")
            \/ JsTruthy(item.text)
        one(item) ==
            [messageId |-> LastSegment(item), entityUrn |-> str(item.entityUrn),
             text |-> str(item.text), conversationId |-> conversationId]
        kept(m) == m.text # <<>>
    IN  SelectSeq(MapSeq(SelectSeq(data.included, keep), one), kept)

\* parseNotifications(data)
parseNotifications(data) ==
    LET keep(item) == TypeIncludes(item, "Notification") \/ TypeIncludes(item, "Card")
        one(item) ==
            [id |-> LastSegment(item), entityUrn |-> str(item.entityUrn),
             headline |-> str(item.headline)]
        kept(n) == n.headline # <<>>
    IN  SelectSeq(MapSeq(SelectSeq(data.included, keep), one), kept)

\* mapJobEntity(item)
mapJobEntity(item) ==
    [id |-> LastSegment(item), entityUrn |-> str(item.entityUrn),
     title |-> str(item.title), companyName |-> str(item.name)]

\* parseJobs(data)
parseJobs(data) ==
    LET keep(item) == TypeIncludes(item, "Job") \/ JsTruthy(item.title)
        kept(j) == j.title # <<>>
    IN  SelectSeq(MapSeq(SelectSeq(data.included, keep), mapJobEntity), kept)

\* parseSingleJob(data): the properties are read off data.data
parseSingleJob(data) ==
    IF ~data.data.defined THEN Threw(PlainError("TypeError", <<"Cannot read properties of undefined">>))
    ELSE Returned(mapJobEntity(data.data.e))

\* parseCompany(data); the entities have no headquarter and no foundedOn
parseCompany(data) ==
    LET keep(item) ==
            TypeIncludes(item, "Company") \/ TypeIncludes(item, "Organization")
        e == FindOr(data.included, keep, data.data.e)
    IN  Returned([entityUrn |-> str(e.entityUrn), name |-> str(e.name),
                  tagline |-> str(e.headline), headquarter |-> JsNull,
                  foundedYear |-> JsNull])

\* conv.participants.map(...): the URN a participant item stands for
participantUrn(p) ==
    IF p.kind = "string" THEN p.urn
    ELSE IF p.kind = "object" THEN str(JsOr(p.entityUrn, p.miniProfile))
    ELSE <<>>

\* parseConversations(data).  miniProfiles is a Map keyed by str(entityUrn):
\* of several stubs under one key the last one set stays.
parseConversations(data) ==
    LET isStub(item) ==
            \/ TypeIncludes(item, "MiniProfile")
            \/ (JsTruthy(item.publicIdentifier) /\ JsTruthy(item.firstName))
        stubs == SelectSeq(data.included, isStub)
        under(urn) == SelectSeq(stubs, LAMBDA item : str(item.entityUrn) = urn)
        miniProfile(urn) ==
            LET item == under(urn)[Len(under(urn))]
            IN  [publicIdentifier |-> str(item.publicIdentifier),
                 firstName |-> str(item.firstName),
                 headline |-> str(item.headline)]
        participantUrns(conv) ==
            IF conv.participants.isArray
            THEN MapSeq(conv.participants.items, participantUrn)
            ELSE <<>>
        known(urn) == under(urn) # <<>>
        keep(conv) ==
            /\ TypeIncludes(conv, "Conversation") \/ UrnIncludes(conv, "conversation")
            /\ LastSegment(conv) # ""
        one(conv) ==
            [conversationId |-> LastSegment(conv),
             entityUrn |-> str(conv.entityUrn),
             participants |->
                 MapSeq(SelectSeq(participantUrns(conv), known), miniProfile)]
    IN  MapSeq(SelectSeq(data.included, keep), one)

(***************************************************************************)
(* headers.ts, pagination.ts, voyager-endpoints.ts                         *)
(***************************************************************************)
\* buildCookieString with the session id as it was given
buildCookieStringRaw(cookies) ==
    LET part(name) ==
            IF name \in DOMAIN cookies /\ Truthy(cookies[name])
            THEN <<"; " \o name \o "=", cookies[name]>> ELSE <<>>
    IN  <<"li_at=", cookies.li_at, "; JSESSIONID=\"">> \o cookies.jsessionid \o <<"\"">>
        \o part("li_mc") \o part("bcookie") \o part("bscookie")

\* buildCookieString(cookies): the parts joined by "; ".  jsessionid is a
\* sequence of characters and fragments, replace(/"/g, "") drops every
\* double quote from it; li_mc, bcookie and bscookie are optional properties
buildCookieString(cookies) ==
    LET stripped == SelectSeq(cookies.jsessionid, LAMBDA c : c # "\"")
        part(name) ==
            IF name \in DOMAIN cookies /\ Truthy(cookies[name])
            THEN <<"; " \o name \o "=", cookies[name]>> ELSE <<>>
    IN  <<"li_at=", cookies.li_at, "; JSESSIONID=\"">> \o stripped \o <<"\"">>
        \o part("li_mc") \o part("bcookie") \o part("bscookie")

\* buildHeaders(cookies)
buildHeaders(cookies) ==
    LET stripped == SelectSeq(cookies.jsessionid, LAMBDA c : c # "\"")
    IN  [h \in {"User-Agent", "Accept", "x-li-lang", "x-li-track",
                "x-restli-protocol-version", "csrf-token", "cookie"} |->
            CASE h = "User-Agent" -> <<"Mozilla/5.0">>
              [] h = "Accept" -> <<"application/vnd.linkedin.normalized+json+2.1">>
              [] h = "x-li-lang" -> <<"en_US">>
              [] h = "x-li-track" -> <<"clientVersion", "1.13.8822">>
              [] h = "x-restli-protocol-version" -> <<"2.0.0">>
              [] h = "csrf-token" -> <<"ajax:">> \o stripped
              [] h = "cookie" -> buildCookieString(cookies)]

DEFAULT_COUNT == 10
MAX_COUNT == 100

\* buildPaginationParams without the cap on count
buildPaginationParamsUncapped(opts) ==
    LET start == JsOr(opts.start, JsNumber(0)).n
        asked == JsOr(opts.count, JsNumber(DEFAULT_COUNT)).n
    IN  <<"start=", ToString(start), "&count=", ToString(asked)>>

\* buildPaginationParams(options), opts standing for options
buildPaginationParams(opts) ==
    LET start == JsOr(opts.start, JsNumber(0)).n
        asked == JsOr(opts.count, JsNumber(DEFAULT_COUNT)).n
        count == IF asked <= MAX_COUNT THEN asked ELSE MAX_COUNT
    IN  <<"start=", ToString(start), "&count=", ToString(count)>>

\* encodeURIComponent(id) of a colon-separated id: each colon becomes %3A
RECURSIVE encodeURIComponent(_)
encodeURIComponent(id) ==
    IF Len(id) <= 1 THEN id
    ELSE <<Head(id), "%3A">> \o encodeURIComponent(Tail(id))

\* endpoints.<name>(id)
endpoints(name, id) ==
    LET BASE == "https://www.linkedin.com/voyager/api" IN
    CASE name = "me" -> <<BASE, "/me">>
      [] name = "profileView" ->
           <<BASE, "/identity/profiles/">> \o id \o <<"/profileView">>
      [] name = "feedUpdates" -> <<BASE, "/feed/updates">>
      [] name = "feedUpdate" -> <<BASE, "/feed/updates/">> \o encodeURIComponent(id)
      [] name = "connections" -> <<BASE, "/relationships/dash/connections">>
      [] name = "receivedInvitations" ->
           <<BASE, "/relationships/receivedInvitationViewsV2">>
      [] name = "conversations" -> <<BASE, "/messaging/conversations">>
      [] name = "conversationEvents" ->
           <<BASE, "/messaging/conversations/">> \o id \o <<"/events">>
      [] name = "notifications" -> <<BASE, "/voyagerNotificationsDashNotificationCards">>
      [] name = "companyBySlug" ->
           <<BASE, "/organization/companies?q=universalName&universalName=">>
               \o encodeURIComponent(id)
      [] name = "jobCards" -> <<BASE, "/voyagerJobsDashJobCards">>
      [] name = "jobPosting" -> <<BASE, "/jobs/jobPostings/">> \o id

\* extractProfileIdentifier(input) of a bare identifier (no URL, no URN, as
\* the inputs here are): input.trim()
RECURSIVE TrimEnd(_)
TrimEnd(s) == IF s # <<>> /\ s[Len(s)] = " " THEN TrimEnd(SubSeq(s, 1, Len(s) - 1)) ELSE s

extractProfileIdentifier(input) == TrimEnd(SkipBlanks(input))

(***************************************************************************)
(* client.ts: LinkedInClient                                               *)
(***************************************************************************)
\* new LinkedInClient({ cookies }): resolveCredentials returns the explicit
\* pair; timeoutMs and delayMs take their defaults
LinkedInClient(cookies) ==
    [cookies |-> cookies, headers |-> buildHeaders(cookies),
     timeoutMs |-> 30000, delayMs |-> 0]

\* fetch(url, { ...init, headers: { ...this.headers, ...init?.headers } })
\* with the base headers left out
FetchInitOwnHeadersOnly(this, verb, url, headers, body) ==
    [method |-> verb, url |-> url, headers |-> headers, body |-> body]

FetchInit(this, verb, url, headers, body) ==
    [method |-> verb, url |-> url, headers |-> headers @@ this.headers,
     body |-> body]

\* the event of a message: eventCreate.value.MessageCreate
MessageCreate(text) ==
    [attributedBody |-> [text |-> text, attributes |-> <<>>], attachments |-> <<>>]

\* sendMessage routing every target to its conversation
sendMessageAlwaysReply(recipientOrConversation, text) ==
    [url |-> endpoints("conversationEvents", recipientOrConversation),
     body |-> [kind |-> "eventCreate", recipients |-> <<>>,
               eventCreate |-> MessageCreate(text), subtype |-> ""]]

\* sendMessage(recipientOrConversation, text): the url and the body of its
\* one this.post(...)
sendMessage(recipientOrConversation, text) ==
    IF \/ Includes(recipientOrConversation, ",")
       \/ /\ recipientOrConversation # <<>>
          /\ \A i \in 1..Len(recipientOrConversation) :
                recipientOrConversation[i] \in Digits
    THEN [url |-> endpoints("conversationEvents", recipientOrConversation),
          body |-> [kind |-> "eventCreate", recipients |-> <<>>,
                    eventCreate |-> MessageCreate(text), subtype |-> ""]]
    ELSE [url |-> endpoints("conversations", <<>>),
          body |-> [kind |-> "conversationCreate",
                    recipients |-> <<<<"urn:li:fsd_profile:">> \o recipientOrConversation>>,
                    eventCreate |-> MessageCreate(text),
                    subtype |-> "MEMBER_TO_MEMBER"]]

\* getPost(urn), after the response has arrived
getPost(data) ==
    LET updates == parseFeedUpdates(data)
    IN  IF Len(updates) = 0 THEN Threw(NotFoundError("Post"))
        ELSE Returned(updates[1])

\* What a reading method does with the decoded body.
Parsed(name, id, data) ==
    CASE name \in {"getMe", "getProfile"} -> parseProfile(data)
      [] name = "getPost" -> getPost(data)
      [] name = "getCompany" -> parseCompany(data)
      [] name = "getJob" -> parseSingleJob(data)
      [] name = "getFeed" -> Returned(parseFeedUpdates(data))
      [] name = "getConnections" -> Returned(parseConnections(data))
      [] name = "getInvitations" -> Returned(parseInvitations(data))
      [] name = "getConversations" -> Returned(parseConversations(data))
      [] name = "getMessages" -> Returned(parseMessages(data, id))
      [] name = "getNotifications" -> Returned(parseNotifications(data))
      [] name = "searchJobs" -> Returned(parseJobs(data))

\* The URL a reading method asks for.
UrlOf(name, id, opts) ==
    LET paged(url, more) == url \o <<"?">> \o buildPaginationParams(opts) \o more IN
    CASE name = "getMe" -> endpoints("me", id)
      [] name = "getProfile" -> endpoints("profileView", id)
      [] name = "getPost" -> endpoints("feedUpdate", id)
      [] name = "getCompany" -> endpoints("companyBySlug", id)
      [] name = "getJob" -> endpoints("jobPosting", id)
      [] name = "getFeed" -> paged(endpoints("feedUpdates", id), <<>>)
      [] name = "getConnections" ->
           paged(endpoints("connections", id), <<"&q=search", "&sortType=RECENTLY_ADDED">>)
      [] name = "getInvitations" -> paged(endpoints("receivedInvitations", id), <<>>)
      [] name = "getConversations" ->
           paged(endpoints("conversations", id), <<"&q=search">>)
      [] name = "getMessages" -> paged(endpoints("conversationEvents", id), <<>>)
      [] name = "getNotifications" -> paged(endpoints("notifications", id), <<>>)
      [] name = "searchJobs" ->
           paged(endpoints("jobCards", id), <<"&q=search", "&keywords=">>)

\* One call of a client method: its name and arguments.
Invocation(name, id, text, opts, conversation) ==
    [name |-> name, id |-> id, text |-> text, options |-> opts,
     conversation |-> conversation]

PaginationOptions(start, count) == [start |-> start, count |-> count]
NoPagination == PaginationOptions(JsUndefined, JsUndefined)

\* the --conversation option of the send command
ConversationOption(given, id) == [given |-> given, id |-> id]

NoInvocation == Invocation("", <<>>, <<>>, NoPagination, ConversationOption(FALSE, <<>>))

\* What the transport gave a call: the fetch outcome and, for a JSON body,
\* what it decodes to.
Reply(f, e) == [f |-> f, e |-> e]
EmptyEnvelope == Envelope(NoData, <<>>)

(***************************************************************************)
(* Specification of client calls.                                          *)
(***************************************************************************)
RetryInit ==
    /\ pc = "idle"
    /\ options = NoOptions
    /\ attempt = 0
    /\ delay = Num(0)
    /\ lastError = NoError
    /\ resp = NoFetch
    /\ calls = 0
    /\ waits = <<>>
    /\ caught = <<>>
    /\ result = NoResult
    /\ parallel = [i \in 1..2 |->
                     [pc |-> "idle", attempt |-> 0, delay |-> Num(0), lastError |-> NoError,
                      calls |-> 0, waits |-> <<>>, caught |-> <<>>]]

\* Client calls run with the credentials settled; nothing of the
\* credential state moves.
LinkedConfig(li_at, jsessionid, cookieSource, accounts, defaultAccount) ==
    [li_at |-> li_at, jsessionid |-> jsessionid, cookieSource |-> cookieSource,
     accounts |-> accounts, defaultAccount |-> defaultAccount]

EmptyConfig == LinkedConfig(Undefined, Undefined, Undefined, NoAccounts, Undefined)

NoAuthOptions == AuthOptions(NoCookies, Undefined, Undefined)

\* A client is there and serves no call.
ClientIdle ==
    /\ method = NoInvocation
    /\ reply = Reply(NoFetch, EmptyEnvelope)
    /\ requests = <<>>
    /\ outcome = NoResult

\* A mutating method with retries of its own choosing
MutateFiveRetries(name) ==
    /\ pc = "idle"
    /\ options' = RetryOptions({"maxRetries"}, 4, 0, 0, 0)
    /\ attempt' = 0
    /\ delay' = Num(initialDelay(options'))
    /\ lastError' = NoError
    /\ resp' = NoFetch
    /\ calls' = 0
    /\ waits' = <<>>
    /\ caught' = <<>>
    /\ result' = NoResult
    /\ pc' = "calling"
    /\ method' = Invocation(name, <<>>, <<>>, NoPagination, ConversationOption(FALSE, <<>>))
    /\ UNCHANGED <<client, reply, requests, outcome>>
    /\ UNCHANGED authVars
    /\ UNCHANGED parallel

\* A mutating method (createPost, comment, react, sendConnectionRequest and
\* sendMessage through this.post, respondToInvitation through this.put,
\* unreact and withdrawConnectionRequest through this.delete): one
\* withRetry(() => this.request(url, init)) with no options, so with the
\* defaults.  Each run of fn is one request() and so one fetch.
Mutate(name) ==
    /\ pc = "idle"
    /\ options' = NoOptions
    /\ attempt' = 0
    /\ delay' = Num(initialDelay(NoOptions))
    /\ lastError' = NoError
    /\ resp' = NoFetch
    /\ calls' = 0
    /\ waits' = <<>>
    /\ caught' = <<>>
    /\ result' = NoResult
    /\ pc' = IF LoopRuns(0, NoOptions) THEN "calling" ELSE "thrown"
    /\ method' = Invocation(name, <<>>, <<>>, NoPagination, ConversationOption(FALSE, <<>>))
    /\ UNCHANGED <<client, reply, requests, outcome>>
    /\ UNCHANGED authVars
    /\ UNCHANGED parallel

\* The call has settled; the client is ready for the next one.
Settle ==
    /\ pc \in {"returned", "thrown"}
    /\ pc' = "idle"
    /\ options' = NoOptions
    /\ attempt' = 0
    /\ delay' = Num(0)
    /\ lastError' = NoError
    /\ resp' = NoFetch
    /\ calls' = 0
    /\ waits' = <<>>
    /\ caught' = <<>>
    /\ result' = NoResult
    /\ method' = NoInvocation
    /\ UNCHANGED <<client, reply, requests, outcome>>
    /\ UNCHANGED authVars
    /\ UNCHANGED parallel

Init ==
    /\ RetryInit
    /\ client = LinkedInClient(CookieSet("token-a", <<"\"", "ajax:1", "\"">>))
    /\ ClientIdle
    /\ env = NoCookies
    /\ config = EmptyConfig
    /\ browsers = {}
    /\ currentAccount = Undefined
    /\ authOptions = NoAuthOptions
    /\ authResult = NotResolved
    /\ configCall = [fn |-> "", name |-> "", threw |-> FALSE]

Next ==
    \/ \E o \in OptionSets : Call(o)
    \/ \E name \in {"createPost", "comment", "react", "unreact",
                    "sendConnectionRequest", "withdrawConnectionRequest",
                    "respondToInvitation", "sendMessage"} : Mutate(name)
    \/ \E f \in FetchOutcomes : Attempt(f)
    \/ Wake
    \/ Settle

Spec == Init /\ [][Next]_vars

(***************************************************************************)
(* Specification of credential resolution: the environment, the config     *)
(* file and the browsers' stores are whatever they are when the process    *)
(* starts; the process sets the ambient account and resolves credentials.  *)
(***************************************************************************)
EnvSets ==
    {NoCookies,
     CookieSet("env-token", "env-session"),
     CookieSet("env-token", Undefined)}

ExplicitCookies ==
    {NoCookies,
     CookieSet("explicit-token", "explicit-session"),
     CookieSet("", "partial")}

AccountMaps ==
    {NoAccounts,
     Accounts(NoAccount, NoAccount),
     Accounts(AccountConfig("work-token", "work-session", Undefined), NoAccount),
     Accounts(AccountConfig("work-token", "", "chrome"),
              AccountConfig("personal-token", "personal-session", Undefined)),
     Accounts(AccountConfig(Undefined, Undefined, "firefox"),
              AccountConfig(Undefined, "personal-session", Undefined)),
     Accounts(AccountConfig(Undefined, Undefined, "opera"),
              AccountConfig(Undefined, Undefined, "env")),
     Accounts(AccountConfig(Undefined, Undefined, "constructor"), NoAccount)}

LegacyPairs ==
    {NoCookies,
     CookieSet("legacy-token", "legacy-session"),
     CookieSet("legacy-token", "")}

Configs ==
    {LinkedConfig(l.li_at, l.jsessionid, cs, a, d) :
        l \in LegacyPairs, cs \in {Undefined, "firefox"},
        a \in AccountMaps, d \in {Undefined, "personal", "ghost"}}

AuthOptionSets ==
    {AuthOptions(c, cs, a) :
        c \in ExplicitCookies, cs \in {Undefined, "chrome", "config"},
        a \in {Undefined, "", "work", "ghost"}}

AuthInit ==
    /\ RetryInit
    /\ client = LinkedInClient(CookieSet("token-a", <<"\"", "ajax:1", "\"">>))
    /\ ClientIdle
    /\ env \in EnvSets
    /\ config \in Configs
    /\ browsers \in SUBSET Browsers
    /\ currentAccount = Undefined
    /\ authOptions = NoAuthOptions
    /\ authResult = NotResolved
    /\ configCall = [fn |-> "", name |-> "", threw |-> FALSE]

\* setCurrentAccount(name); what an earlier resolution gave is forgotten
setCurrentAccount(name) ==
    /\ currentAccount' = name
    /\ authOptions' = NoAuthOptions
    /\ authResult' = NotResolved
    /\ UNCHANGED <<env, config, browsers, configCall>>
    /\ UNCHANGED retryVars
    /\ UNCHANGED clientVars

\* resolveCredentials(options), as the client's constructor calls it.  The
\* outcome depends on nothing an earlier resolution left behind, so one
\* resolution per ambient setting reaches every outcome.
ResolveCredentials(o) ==
    /\ authResult = NotResolved
    /\ authOptions' = o
    /\ authResult' = resolveCredentials(o, env, config, currentAccount, browsers)
    /\ UNCHANGED <<env, config, browsers, currentAccount, configCall>>
    /\ UNCHANGED retryVars
    /\ UNCHANGED clientVars

AuthNext ==
    \/ \E n \in {Undefined, "work", "ghost"} : setCurrentAccount(n)
    \/ \E o \in AuthOptionSets : ResolveCredentials(o)

AuthSpec == AuthInit /\ [][AuthNext]_vars

(***************************************************************************)
(* Specification of two client method calls issued in parallel on one      *)
(* client, as in Promise.all([client.getMe(), client.getFeed()]): each is  *)
(* one invocation of withRetry with the default options, and attempt,      *)
(* delay and lastError are locals of the invocation.  Between two awaits   *)
(* a call runs without interruption, so a step is either the settling of   *)
(* a call's fetch with the catch block up to sleep(), or the end of a      *)
(* call's sleep with the next fn().                                        *)
(***************************************************************************)
ParallelInit ==
    /\ pc = "idle"
    /\ options = NoOptions
    /\ attempt = 0
    /\ delay = Num(0)
    /\ lastError = NoError
    /\ resp = NoFetch
    /\ calls = 0
    /\ waits = <<>>
    /\ caught = <<>>
    /\ result = NoResult
    /\ parallel = [i \in 1..2 |->
                     [pc |-> "calling", attempt |-> 0,
                      delay |-> Num(initialDelay(NoOptions)), lastError |-> NoError,
                      calls |-> 0, waits |-> <<>>, caught |-> <<>>]]
    /\ client = LinkedInClient(CookieSet("token-a", <<"\"", "ajax:1", "\"">>))
    /\ ClientIdle
    /\ env = NoCookies
    /\ config = EmptyConfig
    /\ browsers = {}
    /\ currentAccount = Undefined
    /\ authOptions = NoAuthOptions
    /\ authResult = NotResolved
    /\ configCall = [fn |-> "", name |-> "", threw |-> FALSE]

\* The fetch of call i does f: one pass through the try block of its
\* invocation; a failure goes through its catch block.
ParallelAttempt(i, f) ==
    /\ parallel[i].pc = "calling"
    /\ LET me == parallel[i]
           r == request(Url, f)
           c == Caught(r.error, me.attempt, NoOptions)
           d == DelayAfter(r.error, me.delay)
       IN  parallel' = [parallel EXCEPT ![i] =
              IF r.ok
              THEN [me EXCEPT !.pc = "returned", !.calls = @ + 1]
              ELSE IF c = "sleep"
                   THEN [me EXCEPT !.pc = "sleeping", !.calls = @ + 1,
                                   !.lastError = r.error, !.caught = Append(@, f),
                                   !.delay = d,
                                   !.waits = Append(@, SleepFor(d, NoOptions))]
                   ELSE [me EXCEPT !.pc = "thrown", !.calls = @ + 1,
                                   !.lastError = r.error, !.caught = Append(@, f)]]
    /\ UNCHANGED <<pc, options, attempt, delay, lastError, resp, calls, waits, caught,
                   result>>
    /\ UNCHANGED <<authVars, clientVars>>

\* the sleep of call i ends, with one delay shared by the two calls
ParallelWakeSharedDelay(i) ==
    /\ parallel[i].pc = "sleeping"
    /\ parallel' = [j \in 1..2 |->
          IF j = i
          THEN [parallel[j] EXCEPT !.delay = Backoff(@, NoOptions), !.attempt = @ + 1,
                                   !.pc = "calling"]
          ELSE [parallel[j] EXCEPT !.delay = Backoff(parallel[i].delay, NoOptions)]]
    /\ UNCHANGED <<pc, options, attempt, delay, lastError, resp, calls, waits, caught,
                   result>>
    /\ UNCHANGED <<authVars, clientVars>>

\* The sleep of call i ends: its delay backs off and its loop goes round.
ParallelWake(i) ==
    /\ parallel[i].pc = "sleeping"
    /\ parallel' = [parallel EXCEPT ![i] =
          [@ EXCEPT !.delay = Backoff(@, NoOptions), !.attempt = @ + 1,
                    !.pc = IF LoopRuns(parallel[i].attempt + 1, NoOptions)
                           THEN "calling" ELSE "thrown"]]
    /\ UNCHANGED <<pc, options, attempt, delay, lastError, resp, calls, waits, caught,
                   result>>
    /\ UNCHANGED <<authVars, clientVars>>

ParallelNext ==
    \/ \E i \in 1..2,
          f \in {Response(200, <<"OK">>, <<>>, NoHeader, "application/json", TRUE),
                 Response(404, <<"Not Found">>, <<>>, NoHeader, "", FALSE),
                 Response(429, <<"Too Many Requests">>, <<>>, Header(<<"2">>), "", FALSE),
                 Response(429, <<"Too Many Requests">>, <<>>, Header(<<"1", "2", "0">>),
                          "", FALSE),
                 Response(503, <<"">>, <<>>, NoHeader, "", FALSE),
                 Rejected(PlainError("TypeError", <<"fetch failed">>))} :
            ParallelAttempt(i, f)
    \/ \E i \in 1..2 : ParallelWake(i)

ParallelSpec == ParallelInit /\ [][ParallelNext]_vars

(***************************************************************************)
(* Specification of the account functions of config.ts: the config file's  *)
(* content goes through setAccount, removeAccount, setDefaultAccount and   *)
(* migrateLegacyCredentials, as the account commands apply them between    *)
(* loadConfig and saveConfig.  A call that throws saves nothing.           *)
(* config.accounts is an object with Object.prototype behind it, so        *)
(* config.accounts?.[name] is truthy for an account's name and for the     *)
(* name of an inherited property ("constructor" stands for these).         *)
(***************************************************************************)
ConfigInit ==
    /\ RetryInit
    /\ client = LinkedInClient(CookieSet("token-a", <<"\"", "ajax:1", "\"">>))
    /\ ClientIdle
    /\ env = NoCookies
    /\ config \in {EmptyConfig,
                   LinkedConfig("legacy-token", "legacy-session", "chrome",
                                NoAccounts, Undefined)}
    /\ browsers = {}
    /\ currentAccount = Undefined
    /\ authOptions = NoAuthOptions
    /\ authResult = NotResolved
    /\ configCall = [fn |-> "", name |-> "", threw |-> FALSE]

\* setAccount(config, name, account)
SetAccount(name, account) ==
    /\ config' = [config EXCEPT
                    !.accounts = [defined |-> TRUE,
                                  map |-> [config.accounts.map EXCEPT ![name] = account]],
                    !.defaultAccount = IF ~Truthy(@) THEN name ELSE @]
    /\ configCall' = [fn |-> "setAccount", name |-> name, threw |-> FALSE]
    /\ UNCHANGED <<env, browsers, currentAccount, authOptions, authResult>>
    /\ UNCHANGED <<retryVars, clientVars>>

\* removeAccount(config, name).  Object.keys lists the accounts in the order
\* they were added, which the map does not keep: remaining[0] is any of
\* the accounts left.
RemoveAccount(name) ==
    /\ configCall' = [fn |-> "removeAccount", name |-> name,
                      threw |-> ~(config.accounts.defined
                                  /\ (name = "constructor" \/ AccountOf(config, name).exists))]
    /\ IF configCall'.threw
       THEN config' = config
       ELSE LET rest == [n \in AccountNames |->
                            IF n = name THEN NoAccount ELSE config.accounts.map[n]]
                remaining == {n \in AccountNames : rest[n].exists}
            IN  IF remaining = {}
                THEN config' = [config EXCEPT !.accounts = NoAccounts,
                                              !.defaultAccount = Undefined]
                ELSE \E first \in remaining :
                        config' = [config EXCEPT
                                      !.accounts = [defined |-> TRUE, map |-> rest],
                                      !.defaultAccount = IF @ = name THEN first ELSE @]
    /\ UNCHANGED <<env, browsers, currentAccount, authOptions, authResult>>
    /\ UNCHANGED <<retryVars, clientVars>>

\* setDefaultAccount(config, name)
SetDefaultAccount(name) ==
    /\ configCall' = [fn |-> "setDefaultAccount", name |-> name,
                      threw |-> ~(config.accounts.defined
                                  /\ (name = "constructor" \/ AccountOf(config, name).exists))]
    /\ config' = IF configCall'.threw THEN config
                 ELSE [config EXCEPT !.defaultAccount = name]
    /\ UNCHANGED <<env, browsers, currentAccount, authOptions, authResult>>
    /\ UNCHANGED <<retryVars, clientVars>>

\* migrateLegacyCredentials(config, name)
MigrateLegacyCredentials(name) ==
    /\ configCall' = [fn |-> "migrateLegacyCredentials", name |-> name,
                      threw |-> ~Truthy(config.li_at) \/ ~Truthy(config.jsessionid)]
    /\ config' =
          IF configCall'.threw THEN config
          ELSE [config EXCEPT
                  !.accounts =
                      [defined |-> TRUE,
                       map |-> [config.accounts.map EXCEPT ![name] =
                                  AccountConfig(config.li_at, config.jsessionid,
                                                IF Truthy(config.cookieSource)
                                                THEN config.cookieSource ELSE Undefined)]],
                  !.defaultAccount = name,
                  !.li_at = Undefined,
                  !.jsessionid = Undefined]
    /\ UNCHANGED <<env, browsers, currentAccount, authOptions, authResult>>
    /\ UNCHANGED <<retryVars, clientVars>>

ConfigNext ==
    \/ \E name \in AccountNames,
          account \in {AccountConfig("work-token", "work-session", Undefined),
                       AccountConfig(Undefined, Undefined, "chrome")} :
            SetAccount(name, account)
    \/ \E name \in AccountNames \cup {"ghost", "constructor"} : RemoveAccount(name)
    \/ \E name \in AccountNames \cup {"ghost", "constructor"} : SetDefaultAccount(name)
    \/ \E name \in AccountNames : MigrateLegacyCredentials(name)

ConfigSpec == ConfigInit /\ [][ConfigNext]_vars

(***************************************************************************)
(* Specification of a client at work: a LinkedInClient serves one method   *)
(* call after another.  A retried request is the same closure run again,   *)
(* so a call hands fetch one request however often it is repeated; the     *)
(* transport's answer is that of the last attempt.                         *)
(***************************************************************************)
\* Most entities of `included` in one body, whatever their kinds.
MaxIncluded == 2

\* Most entities in a body of conversations and profile stubs, or of
\* positions.
MaxThread == 3

\* Profile stubs: with a URN, recognised by its properties alone, and
\* without a URN.
Stubs ==
    {[NoEntity EXCEPT
        !.type = JsString(<<"com.linkedin.voyager.identity.shared.", "MiniProfile">>),
        !.entityUrn = JsString(<<"urn", "li", "fs_miniProfile", "ann">>),
        !.publicIdentifier = JsString(<<"ann">>),
        !.firstName = JsString(<<"Ann">>)],
     [NoEntity EXCEPT
        !.entityUrn = JsString(<<"urn", "li", "fs_miniProfile", "bob">>),
        !.publicIdentifier = JsString(<<"bob">>),
        !.firstName = JsString(<<"Bob">>)],
     [NoEntity EXCEPT
        !.type = JsString(<<"com.linkedin.voyager.identity.shared.", "MiniProfile">>),
        !.publicIdentifier = JsString(<<"cy">>),
        !.firstName = JsString(<<"Cy">>)]}

\* A conversation declaring its participants as a bare URN, as objects with
\* entityUrn or "*miniProfile", as an object without either, and as a number.
Thread ==
    [NoEntity EXCEPT
        !.type = JsString(<<"com.linkedin.voyager.messaging.", "Conversation">>),
        !.entityUrn = JsString(<<"urn", "li", "fs_conversation", "2-abc">>),
        !.participants =
            [isArray |-> TRUE,
             items |-> <<Participant("string", <<"urn", "li", "fs_miniProfile", "bob">>,
                                     JsUndefined, JsUndefined),
                         Participant("object", <<>>,
                                     JsString(<<"urn", "li", "fs_miniProfile", "zed">>),
                                     JsUndefined),
                         Participant("object", <<>>, JsUndefined,
                                     JsString(<<"urn", "li", "fs_miniProfile", "ann">>)),
                         Participant("object", <<>>, JsUndefined, JsUndefined),
                         Participant("number", <<>>, JsUndefined, JsUndefined)>>]]

\* Positions that ended (the end under timePeriod, or on the entity itself),
\* and positions that have not: the end null, or nowhere.
Positions ==
    {[NoEntity EXCEPT
        !.type = JsString(<<"com.linkedin.voyager.identity.profile.", "Position">>),
        !.title = JsString(<<"Intern">>),
        !.timePeriod = [startDate |-> DateObject(JsNumber(2018), JsNumber(6)),
                        endDate |-> DateObject(JsNumber(2019), JsNumber(1))]],
     [NoEntity EXCEPT
        !.type = JsString(<<"com.linkedin.voyager.dash.", "position">>),
        !.title = JsString(<<"Analyst">>),
        !.startDate = DateObject(JsNumber(2019), JsUndefined),
        !.endDate = DateObject(JsNumber(2020), JsNumber(3))],
     [NoEntity EXCEPT
        !.type = JsString(<<"com.linkedin.voyager.identity.profile.", "Position">>),
        !.title = JsString(<<"Lead">>),
        !.timePeriod = [startDate |-> DateObject(JsNumber(2021), JsNumber(2)),
                        endDate |-> NullDate]]}

Entities ==
    Stubs \cup {Thread} \cup
    {\* feed updates with and without a URN
     [NoEntity EXCEPT
        !.type = JsString(<<"com.linkedin.voyager.feed.render.", "Update", "V2">>),
        !.entityUrn = JsString(<<"urn", "li", "activity", "1">>),
        !.text = JsString(<<"hello">>)],
     [NoEntity EXCEPT
        !.type = JsString(<<"com.linkedin.voyager.feed.render.", "Update", "V2">>),
        !.text = JsString(<<"hello">>)],
     \* a conversation without a participants array and without an id
     [NoEntity EXCEPT
        !.type = JsString(<<"com.linkedin.voyager.messaging.", "Conversation">>),
        !.entityUrn = JsString(<<"urn", "li", "fs_conversation", "">>)],
     \* a message event and a job card, both without a URN
     [NoEntity EXCEPT
        !.type = JsString(<<"com.linkedin.voyager.messaging.event.", "MessageEvent">>),
        !.text = JsString(<<"hi">>)],
     [NoEntity EXCEPT !.title = JsString(<<"Engineer">>), !.name = JsString(<<"Acme">>)],
     \* a notification card without a URN, an invitation with one
     [NoEntity EXCEPT
        !.type = JsString(<<"com.linkedin.voyager.identity.notifications.", "Card">>),
        !.headline = JsString(<<"Ann viewed your profile">>)],
     [NoEntity EXCEPT
        !.type = JsString(<<"com.linkedin.voyager.relationships.", "Invitation">>),
        !.entityUrn = JsString(<<"urn", "li", "invitation", "5">>)],
     \* a position that began in a year, with no month, and has not ended
     [NoEntity EXCEPT
        !.type = JsString(<<"com.linkedin.voyager.identity.profile.", "Position">>),
        !.title = JsString(<<"Engineer">>),
        !.timePeriod = [startDate |-> DateObject(JsNumber(2020), JsUndefined),
                        endDate |-> NoDate]],
     \* a profile and a company
     [NoEntity EXCEPT
        !.type = JsString(<<"com.linkedin.voyager.identity.profile.", "Profile">>),
        !.entityUrn = JsString(<<"urn", "li", "fs_profile", "dee">>),
        !.publicIdentifier = JsString(<<"dee">>),
        !.connectionCount = JsString(<<"5", "0", "0">>)],
     [NoEntity EXCEPT
        !.type = JsString(<<"com.linkedin.voyager.organization.", "Company">>),
        !.entityUrn = JsString(<<"urn", "li", "company", "7">>),
        !.name = JsString(<<"Acme">>)]}

\* What the transport can answer: a JSON body (data missing, empty or a job
\* posting; included of any kinds, a thread of conversations and stubs, or
\* the positions of a career),
\* or a failure of the call.
Replies ==
    {Reply(Response(200, <<"OK">>, <<>>, NoHeader, "application/json", TRUE),
           Envelope(d, i)) :
        d \in {NoData, Data(NoEntity),
               Data([NoEntity EXCEPT
                        !.entityUrn = JsString(<<"urn", "li", "jobPosting", "9">>),
                        !.title = JsString(<<"Engineer">>)])},
        i \in UNION {[1..k -> Entities] : k \in 0..MaxIncluded}
              \cup UNION {[1..k -> Stubs \cup {Thread}] : k \in 0..MaxThread}
              \cup UNION {[1..k -> Positions] : k \in 0..MaxThread}}
    \cup {Reply(f, EmptyEnvelope) :
            f \in {Response(404, <<"Not Found">>, <<>>, NoHeader, "", FALSE),
                   Response(500, <<"">>, <<>>, NoHeader, "", FALSE),
                   Rejected(PlainError("TypeError", <<"fetch failed">>))}}

ClientInit ==
    /\ RetryInit
    /\ env = NoCookies
    /\ config = EmptyConfig
    /\ browsers = {}
    /\ currentAccount = Undefined
    /\ authOptions = NoAuthOptions
    /\ authResult = NotResolved
    /\ configCall = [fn |-> "", name |-> "", threw |-> FALSE]
    /\ client \in
         {LinkedInClient(CookieSet("token-a", <<"\"", "ajax:1", "\"">>)),
          LinkedInClient(CookieSet("token-b", <<"ajax:", "2">>)
                         @@ [bcookie |-> "", bscookie |-> "bsc-value"]),
          LinkedInClient(CookieSet("token-c", <<"\"", "ajax:", "\"", "3", "\"">>)
                         @@ [li_mc |-> "mc-value", bcookie |-> "bc-value",
                             bscookie |-> "bsc-value"])}
    /\ ClientIdle

\* A reading method (getMe, getProfile, getPost, getCompany, getJob; getFeed,
\* getConnections, getInvitations, getConversations, getNotifications,
\* searchJobs; getMessages): this.get(url, params), then its parser.
Get(name, id, opts, r) ==
    /\ method = NoInvocation
    /\ LET url == UrlOf(name, id, opts)
           got == request(url, r.f)
       IN  /\ requests' = <<FetchInit(client, "GET", url, [h \in {} |-> <<>>], <<>>)>>
           /\ outcome' = IF got.ok THEN Parsed(name, id, r.e) ELSE Threw(got.error)
    /\ method' = Invocation(name, id, <<>>, opts, ConversationOption(FALSE, <<>>))
    /\ reply' = r
    /\ UNCHANGED client
    /\ UNCHANGED <<retryVars, authVars>>

\* this.post(url, body) of a message, for sendMessage and the send command
PostMessage(invocation, target, r, said) ==
    /\ method = NoInvocation
    /\ LET m == sendMessage(target, invocation.text)
           got == request(m.url, r.f)
           contentType == [h \in {"Content-Type"} |-> <<"application/json">>]
       IN  /\ requests' = <<FetchInit(client, "POST", m.url, contentType, m.body)>>
           /\ outcome' = IF got.ok THEN Returned(said) ELSE Threw(got.error)
    /\ method' = invocation
    /\ reply' = r
    /\ UNCHANGED client
    /\ UNCHANGED <<retryVars, authVars>>

\* client.sendMessage(recipientOrConversation, text)
SendMessage(target, text, r) ==
    PostMessage(Invocation("sendMessage", target, text, NoPagination, ConversationOption(FALSE, <<>>)),
                target, r, <<>>)

\* linked send [--conversation <id>] <username-or-url> <text>
SendCommand(input, text, conversation, r) ==
    IF conversation.given /\ conversation.id # <<>>
    THEN PostMessage(Invocation("send", input, text, NoPagination, conversation),
                     conversation.id, r, <<"Message sent to conversation!">>)
    ELSE PostMessage(Invocation("send", input, text, NoPagination, conversation),
                     extractProfileIdentifier(input), r, <<"Message sent!">>)

\* The call has settled and the client waits for the next one.
Done ==
    /\ method # NoInvocation
    /\ method' = NoInvocation
    /\ reply' = Reply(NoFetch, EmptyEnvelope)
    /\ requests' = <<>>
    /\ outcome' = NoResult
    /\ UNCHANGED client
    /\ UNCHANGED <<retryVars, authVars>>

\* start, count and total of a paging window range over 0..MaxPage,
\* 0..MaxPage and 0..2 * MaxPage
MaxPage == 3

\* hasNextPage with the last page taken for one that has a successor
hasNextPageInclusive(paging) == paging.start + paging.count <= paging.total

\* hasNextPage(paging)
hasNextPage(paging) == paging.start + paging.count < paging.total

\* nextPageStart(paging)
nextPageStart(paging) == paging.start + paging.count

\* A call of one of the two paging helpers on a PagingInfo object.  Neither
\* assigns to its argument: the object after the call, kept as the options
\* of the invocation, is the object passed.
Paging(name, paging) ==
    /\ method' = Invocation(name, <<>>, <<>>, paging, ConversationOption(FALSE, <<>>))
    /\ outcome' = Returned(IF name = "hasNextPage" THEN hasNextPage(paging)
                                                   ELSE nextPageStart(paging))
    /\ UNCHANGED <<client, reply, requests>>
    /\ UNCHANGED <<retryVars, authVars>>

\* targets of messages: ids of conversations and names of members
Targets ==
    {<<"1", "2", "3">>, <<"j", "o", "e">>, <<"2", "-", "a", "b", "=">>,
     <<"4", ",", "2", "-", "a">>, <<"4", "2", "x">>, <<>>}

\* A call begins only when the one before has settled.
ClientNext ==
    \/ /\ ClientIdle
       /\ \E name \in {"getMe", "getProfile", "getPost", "getCompany", "getJob"},
             id \in {<<"ann">>, <<"urn", "li", "activity", "1">>},
             r \in Replies : Get(name, id, NoPagination, r)
    \/ /\ ClientIdle
       /\ \E name \in {"getFeed", "getConnections", "getInvitations",
                       "getConversations", "getNotifications", "searchJobs"},
             opts \in {NoPagination, PaginationOptions(JsNumber(20), JsNumber(150))},
             r \in Replies : Get(name, <<>>, opts, r)
    \/ /\ ClientIdle
       /\ \E opts \in {NoPagination, PaginationOptions(JsNumber(20), JsNumber(150))},
             r \in Replies : Get("getMessages", <<"2-abc">>, opts, r)
    \/ /\ ClientIdle
       /\ \E name \in {"getFeed", "getConnections"},
             start \in {JsUndefined, JsNull, JsNumber(0), JsNumber(20)},
             count \in {JsUndefined, JsNull} \cup
                       {JsNumber(n) : n \in {0, 1, 50, MAX_COUNT - 1, MAX_COUNT,
                                             MAX_COUNT + 1, 150, 1000}},
             r \in {x \in Replies : x.e = EmptyEnvelope} :
                Get(name, <<>>, PaginationOptions(start, count), r)
    \/ /\ ClientIdle
       /\ \E target \in Targets, r \in {x \in Replies : x.e = EmptyEnvelope} :
            SendMessage(target, <<"Hello!">>, r)
    \/ /\ ClientIdle
       /\ \E input \in {<<"j", "o", "e">>, <<" ", "j", "o", "e", " ">>},
             conversation \in {ConversationOption(FALSE, <<>>)}
                              \cup {ConversationOption(TRUE, t) : t \in Targets},
             r \in {x \in Replies : x.e = EmptyEnvelope} :
                SendCommand(input, <<"Reply">>, conversation, r)
    \/ /\ ClientIdle
       /\ \E name \in {"hasNextPage", "nextPageStart"},
             start \in 0..MaxPage, count \in 0..MaxPage, total \in 0..(2 * MaxPage) :
                Paging(name, [start |-> start, count |-> count, total |-> total])
    \/ Done

ClientSpec == ClientInit /\ [][ClientNext]_vars

(***************************************************************************)
(* Properties of client calls (checked under Spec).                        *)
(***************************************************************************)
NetworkMarkers == {"ECONNRESET", "ETIMEDOUT", "ECONNREFUSED", "fetch failed"}

\* The classification as the specification words it.
TransientNetworkFailure(e) == \E m \in NetworkMarkers : Includes(e.message, m)

StatedRetryable(e) ==
    \/ e.cls = "RateLimitError"
    \/ TransientNetworkFailure(e)
    \/ (e.hasStatusCode /\ e.statusCode >= 500 /\ e.statusCode < 600)

\* The most recent attempt failed and the catch block has dealt with it.
AttemptFailed == pc \in {"sleeping", "thrown"} /\ lastError # NoError

LastWait == waits[Len(waits)]

\* C1: withRetry invokes the operation at most maxRetries+1 times; a call
\* that ends with a retryable error has made exactly maxRetries+1 attempts,
\* all of them failing, and throws the error of its final attempt.
C1_AttemptBudget ==
    /\ calls <= maxRetries(options) + 1
    /\ (pc = "thrown" /\ StatedRetryable(lastError)) =>
          /\ calls = maxRetries(options) + 1
          /\ Len(waits) = maxRetries(options)
          /\ ~request(Url, resp).ok
          /\ result = Threw(request(Url, resp).error)

C1_Witness ==
    /\ pc = "thrown"
    /\ maxRetries(options) = 2
    /\ calls = 3
    /\ result.error.cls = "RateLimitError"

\* C2: an attempt that fails with a non-retryable error ends the call at
\* once: the error of that attempt is thrown, no sleep is started and no
\* further attempt follows, whichever attempt it is.
C2_NonRetryableThrownAtOnce ==
    [][ /\ (pc = "calling" /\ pc' # "calling"
              /\ ~request(Url, resp').ok
              /\ ~StatedRetryable(request(Url, resp').error))
            => /\ pc' = "thrown"
               /\ result' = Threw(request(Url, resp').error)
               /\ waits' = waits
               /\ calls' = calls + 1
        /\ (pc = "thrown") => (pc' = "idle" /\ calls' = 0)
      ]_vars

C2_Witness ==
    /\ pc = "thrown"
    /\ maxRetries(options) = 3
    /\ calls = 1
    /\ waits = <<>>
    /\ result.error.cls = "NotFoundError"

C5_AbortIsRetried ==
    (resp.kind = "aborted" /\ attempt < maxRetries(options) /\ pc # "calling")
        => pc = "sleeping"

\* The outcome request() has for a response, as the specification lists it.
RECURSIVE DecimalValue(_, _)
DecimalValue(chars, acc) ==
    IF chars = <<>> THEN acc
    ELSE DecimalValue(Tail(chars), acc * 10 + DigitVal(Head(chars)))

AllDigits(chars) == chars # <<>> /\ \A i \in 1..Len(chars) : chars[i] \in Digits

StatedOutcome(f) ==
    CASE f.status = 401 ->
           AttemptFailed /\ lastError.cls = "AuthenticationError"
      [] f.status = 403 ->
           /\ AttemptFailed
           /\ IF \E i \in 1..Len(f.body) : f.body[i] \in {"challenge", "captcha"}
              THEN lastError.cls = "ChallengeError"
              ELSE /\ lastError.cls = "AuthenticationError"
                   /\ lastError.message =
                        <<"Access forbidden. Your session may be restricted.">>
      [] f.status = 404 ->
           /\ AttemptFailed
           /\ lastError.cls = "NotFoundError"
           /\ lastError.message = <<"Resource", "not found.">>
      [] f.status = 429 ->
           /\ AttemptFailed
           /\ lastError.cls = "RateLimitError"
           /\ ~f.retryAfter.present => lastError.retryAfter = Num(60)
           /\ (f.retryAfter.present /\ AllDigits(f.retryAfter.value)) =>
                 lastError.retryAfter = Num(DecimalValue(f.retryAfter.value, 0))
      [] f.status \notin {401, 403, 404, 429} /\ (f.status < 200 \/ f.status > 299) ->
           /\ AttemptFailed
           /\ lastError.cls = "LinkedInError"
           /\ lastError.statusCode = f.status
           /\ lastError.endpoint = Url
      [] OTHER ->
           \/ pc = "returned" /\ result.ok /\ result.value \in {"json", "text"}
           \/ pc = "thrown" /\ lastError.cls = "SyntaxError"

RECURSIVE Pow(_, _)
Pow(b, k) == IF k = 0 THEN 1 ELSE b * Pow(b, k - 1)

Least(a, b) == IF a <= b THEN a ELSE b

NoRateLimitSoFar == \A i \in 1..Len(caught) : caught[i] # "RateLimitError"

\* C13: in a call none of whose failures was a rate-limit signal, the wait
\* after the k-th failed attempt (k = 0, 1, ...) is
\* min(initialDelay * multiplier^k, maxDelay); no wait exceeds maxDelay.
C13_BackoffSchedule ==
    /\ NoRateLimitSoFar =>
          \A k \in 1..Len(waits) :
              waits[k] = Num(Least(initialDelay(options) * Pow(multiplier(options), k - 1),
                                   maxDelay(options)))
    /\ \A k \in 1..Len(waits) : ~waits[k].nan => waits[k].v <= maxDelay(options)
    /\ pc = "sleeping" => Len(waits) = attempt + 1

C13_Witness ==
    /\ pc = "sleeping"
    /\ NoRateLimitSoFar
    /\ initialDelay(options) = 500
    /\ Len(waits) = 3
    /\ waits[2] = Num(1500)
    /\ waits[3] = Num(4000)
    /\ delay = Num(4500)

(***************************************************************************)
(* Properties of credential resolution (checked under AuthSpec).           *)
(***************************************************************************)
Settled == authResult.status # "none"

ReturnedCookies(c) == authResult.status = "returned" /\ authResult.cookies = c

\* A complete pair has both fields present and non-empty; a partial pair
\* has one of them.
Complete(p) == p.li_at \notin {Undefined, ""} /\ p.jsessionid \notin {Undefined, ""}

Partial(p) ==
    /\ ~Complete(p)
    /\ (p.li_at \notin {Undefined, ""} \/ p.jsessionid \notin {Undefined, ""})

ExplicitPair == authOptions.cookies

LegacyPair == CookieSet(config.li_at, config.jsessionid)

\* The account the named-account tier looks at: the name given by option,
\* else by the ambient account, else by the config's default.
SelectedName ==
    IF authOptions.account # Undefined THEN authOptions.account
    ELSE IF currentAccount # Undefined THEN currentAccount
    ELSE config.defaultAccount

NameGiven == SelectedName \notin {Undefined, ""}

Configured(name) ==
    config.accounts.defined /\ name \in AccountNames /\ config.accounts.map[name].exists

SelectedAccount == IF Configured(SelectedName) THEN config.accounts.map[SelectedName]
                   ELSE NoAccount

NamedPair == CookieSet(SelectedAccount.li_at, SelectedAccount.jsessionid)

Log == authResult.extractions

\* C7: a complete pair of a higher tier always wins: explicit over
\* environment over named account over legacy config over the browser
\* tier, whichever way the account was selected.
C7_TierPriority ==
    Settled =>
        /\ Complete(ExplicitPair) => ReturnedCookies(ExplicitPair)
        /\ (~Complete(ExplicitPair) /\ Complete(env)) => ReturnedCookies(env)
        /\ (~Complete(ExplicitPair) /\ ~Complete(env) /\ Complete(NamedPair))
              => ReturnedCookies(NamedPair)
        /\ (Complete(ExplicitPair) \/ Complete(env) \/ Complete(NamedPair)
              \/ Complete(LegacyPair))
              => \A i \in 1..Len(Log) : Log[i].site # "browser"
        /\ (~Complete(ExplicitPair) /\ ~Complete(env) /\ ~Complete(NamedPair)
              /\ Complete(LegacyPair) /\ authResult.status = "returned" /\ Log = <<>>)
              => ReturnedCookies(LegacyPair)

C7_Witness ==
    /\ Settled
    /\ ~Complete(ExplicitPair)
    /\ Complete(env)
    /\ authOptions.account = "work"
    /\ Complete(NamedPair)
    /\ Complete(LegacyPair)
    /\ browsers = Browsers
    /\ ReturnedCookies(env)

\* C8: a pair with an empty or missing field is never returned by the
\* explicit, environment, named-account or legacy tier (what is returned
\* without a successful extraction is complete), and resolution goes on to
\* the next tier.
C8_PartialPairIsAbsent ==
    Settled =>
        /\ (authResult.status = "returned" /\ \A i \in 1..Len(Log) : ~Log[i].ok)
              => Complete(authResult.cookies)
        /\ (Partial(ExplicitPair) /\ Complete(env)) => ReturnedCookies(env)
        /\ (~Complete(ExplicitPair) /\ Partial(env) /\ Complete(NamedPair))
              => ReturnedCookies(NamedPair)
        /\ (~Complete(ExplicitPair) /\ ~Complete(env) /\ Partial(NamedPair)
              /\ SelectedAccount.cookieSource = Undefined /\ Complete(LegacyPair))
              => ReturnedCookies(LegacyPair)
        /\ (~Complete(ExplicitPair) /\ ~Complete(env) /\ ~NameGiven
              /\ Partial(LegacyPair))
              => (Len(Log) = 1 /\ Log[1].site = "browser")

C8_Witness ==
    /\ Partial(ExplicitPair)
    /\ Partial(env)
    /\ Partial(NamedPair)
    /\ SelectedAccount.cookieSource = Undefined
    /\ Complete(LegacyPair)
    /\ ReturnedCookies(LegacyPair)

\* C9: with no explicit and no environment pair, a given account name that
\* is not among the configured accounts makes resolveCredentials fail at
\* once with the AuthenticationError that lists the available accounts;
\* neither the legacy config nor a browser is consulted.
C9_UnknownAccountFails ==
    (Settled /\ ~Complete(ExplicitPair) /\ ~Complete(env)
        /\ NameGiven /\ ~Configured(SelectedName))
    => /\ authResult.status = "thrown"
       /\ authResult.error.cls = "AuthenticationError"
       /\ authResult.error.message[1] = "Account not found."
       /\ authResult.error.message[2] = SelectedName
       /\ Log = <<>>

\* C10 as stated: whenever an invocation of the extractor fails, the call
\* ends by throwing an AuthenticationError with that failure's message.
C10_EveryExtractorFailureWrapped ==
    Settled =>
        \A i \in 1..Len(Log) :
            ~Log[i].ok =>
                /\ authResult.status = "thrown"
                /\ authResult.error.cls = "AuthenticationError"
                /\ authResult.error.message = Log[i].error.message

\* C10 amended: a failure of the browser tier's extraction (the last tier)
\* is wrapped: the call throws an AuthenticationError with that failure's
\* message.  A failure of the extraction for the named account's
\* cookieSource is swallowed: the call goes on to the legacy config and then
\* the browser tier.  Whatever it throws is an AuthenticationError.
C10_BrowserTierFailureWrapped ==
    Settled =>
        /\ authResult.status = "thrown" => authResult.error.cls = "AuthenticationError"
        /\ \A i \in 1..Len(Log) :
              (Log[i].site = "browser" /\ ~Log[i].ok) =>
                  /\ i = Len(Log)
                  /\ authResult.status = "thrown"
                  /\ authResult.error.message = Log[i].error.message
        /\ \A i \in 1..Len(Log) :
              (Log[i].site = "account" /\ ~Log[i].ok) =>
                  /\ i = 1
                  /\ Complete(LegacyPair) => (Len(Log) = 1 /\ ReturnedCookies(LegacyPair))
                  /\ ~Complete(LegacyPair) => (Len(Log) = 2 /\ Log[2].site = "browser")

C10_Witness ==
    /\ authResult.status = "thrown"
    /\ Len(Log) = 2
    /\ Log[1].site = "account"
    /\ ~Log[1].ok
    /\ Log[2].site = "browser"
    /\ ~Log[2].ok
    /\ authResult.error.message = Log[2].error.message
    /\ authResult.error.message # Log[1].error.message

\* C11: when the selected account exists, has no complete pair of its own
\* and declares a cookieSource, the first extraction of the call is the one
\* for that source (for a browser name, that browser alone is tried), it
\* comes before the legacy pair and the browser tier are looked at, and its
\* cookies are returned when it succeeds, whatever the legacy config holds.
C11_AccountSourceExtractedFirst ==
    /\ (Settled /\ ~Complete(ExplicitPair) /\ ~Complete(env) /\ NameGiven
          /\ Configured(SelectedName) /\ ~Complete(NamedPair)
          /\ SelectedAccount.cookieSource \notin {Undefined, ""})
        => /\ Len(Log) >= 1
           /\ Log[1].site = "account"
           /\ Log[1].source = SelectedAccount.cookieSource
           /\ SelectedAccount.cookieSource \in Browsers =>
                 /\ Log[1].tried = <<SelectedAccount.cookieSource>>
                 /\ Log[1].ok <=> SelectedAccount.cookieSource \in browsers
                 /\ Log[1].ok =>
                       ReturnedCookies(BrowserCookies(SelectedAccount.cookieSource))
           /\ Log[1].ok => (Len(Log) = 1 /\ authResult.status = "returned")
           /\ (~Log[1].ok /\ Complete(LegacyPair)) =>
                 (Len(Log) = 1 /\ ReturnedCookies(LegacyPair))
           /\ (~Log[1].ok /\ ~Complete(LegacyPair)) =>
                 (Len(Log) = 2 /\ Log[2].site = "browser")
    /\ \A i \in 1..Len(Log) : Log[i].site = "account" => i = 1

C11_Witness ==
    /\ Settled
    /\ authOptions.account = "work"
    /\ SelectedAccount = AccountConfig("work-token", "", "chrome")
    /\ Complete(LegacyPair)
    /\ browsers = Browsers
    /\ Log # <<>>
    /\ Log[1].tried = <<"chrome">>
    /\ ReturnedCookies(BrowserCookies("chrome"))

\* C12: the account the named-account tier looks up is the one named by
\* options.account when that is defined, else by the ambient current
\* account when that is defined, else by config.defaultAccount: the pair
\* returned, or the name in the "not found" error, is that account's.  A
\* defined but empty name selects no account and the tier is passed over.
C12_AccountNamePrecedence ==
    (Settled /\ ~Complete(ExplicitPair) /\ ~Complete(env) /\ config.accounts.defined)
    => /\ (NameGiven /\ Complete(NamedPair)) => ReturnedCookies(NamedPair)
       /\ (NameGiven /\ ~Configured(SelectedName)) =>
             /\ authResult.status = "thrown"
             /\ authResult.error.message[1] = "Account not found."
             /\ authResult.error.message[2] = SelectedName
       /\ ~NameGiven =>
             /\ \A i \in 1..Len(Log) : Log[i].site = "browser"
             /\ authResult.status = "thrown" =>
                   authResult.error.message[1] # "Account not found."
             /\ Complete(LegacyPair) => ReturnedCookies(LegacyPair)

C12_Witness ==
    /\ authOptions.account = "work"
    /\ currentAccount = "ghost"
    /\ config.defaultAccount = "personal"
    /\ config.accounts.defined
    /\ ~Configured("personal")
    /\ ReturnedCookies(CookieSet("work-token", "work-session"))

(***************************************************************************)
(* Properties of the client's methods and parsers.                         *)
(***************************************************************************)
\* the call under way got a JSON body and went on to its parser
Answered == method # NoInvocation /\ request(<<>>, reply.f).ok

\* a decoded body in which no entity can be found: nothing included, and
\* data missing or without properties
NothingToFind(e) == e.included = <<>> /\ e.data \in {NoData, Data(NoEntity)}

\* C14: a call of getPost, getProfile, getMe, getCompany or getJob whose
\* response holds no candidate entity throws NotFoundError and returns no
\* record.
C14_SingularThrowsNotFound ==
    (/\ Answered
     /\ method.name \in {"getPost", "getProfile", "getMe", "getCompany", "getJob"}
     /\ NothingToFind(reply.e))
    => (~outcome.ok /\ outcome.error.cls = "NotFoundError")

\* C15: no record of a list returned by getFeed, getConnections,
\* getInvitations, getConversations, getMessages, getNotifications or
\* searchJobs has an empty URN: an included item without its primary URN is
\* dropped.
C15_ListItemsHaveUrn ==
    (/\ Answered
     /\ outcome.ok
     /\ method.name \in {"getFeed", "getConnections", "getInvitations",
                         "getConversations", "getMessages", "getNotifications",
                         "searchJobs"})
    => \A i \in 1..Len(outcome.value) :
          IF method.name = "getFeed"
          THEN outcome.value[i].urn # <<>>
          ELSE outcome.value[i].entityUrn # <<>>

\* a field that holds a value: a string, a number, a boolean or null
Present(v) == v.t # "undefined"

\* a date of a range: null, or a record whose year and month are present
DatePresent(d) == d = NullDate \/ (Present(d.year) /\ Present(d.month))

\* C16: every field of the Profile a normalizer returns is present with a
\* value of its type, and so is every field of the nested experience and
\* education records and of their date ranges: none is undefined.
C16_NoUndefinedField ==
    (Answered /\ outcome.ok /\ method.name \in {"getMe", "getProfile"})
    => LET p == outcome.value IN
       /\ Present(p.publicIdentifier) /\ Present(p.firstName)
       /\ Present(p.headline) /\ Present(p.connectionCount)
       /\ Present(p.entityUrn)
       /\ \A i \in 1..Len(p.experience) :
             /\ Present(p.experience[i].title)
             /\ DatePresent(p.experience[i].startDate)
             /\ DatePresent(p.experience[i].endDate)
       /\ \A i \in 1..Len(p.education) :
             /\ Present(p.education[i].schoolName)
             /\ DatePresent(p.education[i].startDate)
             /\ DatePresent(p.education[i].endDate)

\* a participant item that declares a URN: a bare string, or an object with
\* an entityUrn or a "*miniProfile" property
Declares(p) ==
    \/ p.kind = "string"
    \/ p.kind = "object" /\ (JsTruthy(p.entityUrn) \/ JsTruthy(p.miniProfile))

DeclaredUrn(p) ==
    IF p.kind = "string" THEN p.urn ELSE str(JsOr(p.entityUrn, p.miniProfile))

\* the profile stubs of included whose entityUrn is urn
StubsUnder(included, urn) ==
    {i \in 1..Len(included) :
        /\ \/ TypeIncludes(included[i], "MiniProfile")
           \/ JsTruthy(included[i].publicIdentifier) /\ JsTruthy(included[i].firstName)
        /\ included[i].entityUrn = JsString(urn)}

\* C17: each conversation getConversations returns lists as participants
\* exactly the profile stubs whose entityUrn is a URN the conversation
\* declares (a bare string, or entityUrn / "*miniProfile" of an object), in
\* the order declared; a declared URN without a stub adds no entry, and
\* nothing else adds one.
C17_ParticipantsAreDeclaredStubs ==
    (Answered /\ outcome.ok /\ method.name = "getConversations")
    => LET included == reply.e.included
           convs == SelectSeq(included,
                        LAMBDA c : /\ \/ TypeIncludes(c, "Conversation")
                                      \/ UrnIncludes(c, "conversation")
                                   /\ LastSegment(c) # "")
           resolved(c) ==
               SelectSeq(IF c.participants.isArray THEN c.participants.items ELSE <<>>,
                         LAMBDA p : Declares(p)
                                    /\ StubsUnder(included, DeclaredUrn(p)) # {})
       IN  /\ Len(outcome.value) = Len(convs)
           /\ \A k \in 1..Len(convs) :
                 /\ Len(outcome.value[k].participants) = Len(resolved(convs[k]))
                 /\ \A j \in 1..Len(resolved(convs[k])) :
                       \E i \in StubsUnder(included, DeclaredUrn(resolved(convs[k])[j])) :
                          outcome.value[k].participants[j] =
                             [publicIdentifier |-> str(included[i].publicIdentifier),
                              firstName |-> str(included[i].firstName),
                              headline |-> str(included[i].headline)]

\* the request carries the header the client computed at construction
SentWith(req, h) == h \in DOMAIN req.headers /\ req.headers[h] = client.headers[h]

\* C18: no call of a client method, successful or failing, changes the
\* client's CookieSet or the headers derived from it, and every request the
\* client sends carries the csrf-token and the cookie computed at
\* construction.
C18_CredentialsReadOnly ==
    [][/\ client' = client
       /\ client'.headers = buildHeaders(client.cookies)
       /\ \A i \in 1..Len(requests') :
             SentWith(requests'[i], "csrf-token") /\ SentWith(requests'[i], "cookie")]_vars

\* a message was posted with its own Content-Type header, the call failed,
\* and the request still carried the client's credentials
C18_Witness ==
    /\ method.name = "sendMessage"
    /\ ~outcome.ok
    /\ outcome.error.cls = "LinkedInError"
    /\ Len(requests) = 1
    /\ requests[1].method = "POST"
    /\ requests[1].headers["Content-Type"] = <<"application/json">>
    /\ requests[1].headers["csrf-token"] = <<"ajax:", "ajax:1">>
    /\ SentWith(requests[1], "cookie")

\* C19: the command `send --conversation <id> <text>` posts the message to
\* the events endpoint of conversation <id>, as a reply in it, whatever the
\* id is, and never creates a conversation.
C19_SendToConversationReplies ==
    (method.name = "send" /\ method.conversation.given /\ method.conversation.id # <<>>)
    => /\ Len(requests) = 1
       /\ requests[1].method = "POST"
       /\ requests[1].url = endpoints("conversationEvents", method.conversation.id)
       /\ requests[1].body.kind = "eventCreate"

\* C20: sendMessage(target, text) makes one POST.  When target contains a
\* comma or consists of digits only, it goes to the events endpoint of
\* conversation target; otherwise it goes to the conversations endpoint with
\* a conversationCreate body whose only recipient is
\* urn:li:fsd_profile:<target>.
C20_SendMessageRouting ==
    (method.name = "sendMessage")
    => LET target == method.id
           reply_to == \/ \E i \in 1..Len(target) : target[i] = ","
                       \/ target # <<>> /\ \A i \in 1..Len(target) :
                                              target[i] \in {"0", "1", "2", "3", "4",
                                                             "5", "6", "7", "8", "9"}
       IN  /\ Len(requests) = 1
           /\ requests[1].method = "POST"
           /\ reply_to =>
                 /\ requests[1].url =
                       <<"https://www.linkedin.com/voyager/api",
                         "/messaging/conversations/">> \o target \o <<"/events">>
                 /\ requests[1].body.kind = "eventCreate"
           /\ ~reply_to =>
                 /\ requests[1].url = <<"https://www.linkedin.com/voyager/api",
                                        "/messaging/conversations">>
                 /\ requests[1].body.kind = "conversationCreate"
                 /\ requests[1].body.recipients =
                       <<(<<"urn:li:fsd_profile:">> \o target)>>
           /\ requests[1].body.eventCreate.attributedBody.text = method.text

\* a message to a target with a comma, letters and digits was posted as a
\* reply to the events endpoint of that conversation
C20_Witness ==
    /\ method.name = "sendMessage"
    /\ method.id = <<"4", ",", "2", "-", "a">>
    /\ outcome.ok
    /\ requests[1].body.kind = "eventCreate"
    /\ requests[1].url = <<"https://www.linkedin.com/voyager/api",
                           "/messaging/conversations/", "4", ",", "2", "-", "a",
                           "/events">>

(***************************************************************************)
(* Further properties of the retry loop (checked under Spec).              *)
(***************************************************************************)
\* C29: withRetry waits once between two consecutive attempts and at no
\* other time: while the call runs every attempt made so far but the one
\* under way was followed by one wait, and when the call settles (with a
\* result, a non-retryable error or the error of the final attempt) the
\* waits number one less than the attempts.
C29_OneWaitBetweenAttempts ==
    /\ pc = "calling" => Len(waits) = calls
    /\ pc = "sleeping" => Len(waits) = calls
    /\ pc \in {"returned", "thrown"} => Len(waits) = calls - 1

\* a call that succeeded at its third attempt, after two waits
C29_Witness ==
    /\ pc = "returned"
    /\ calls = 3
    /\ Len(waits) = 2
    /\ result.ok

\* C30: a rate-limit failure replaces the backoff delay.  When the attempt
\* before failed with RateLimitError(retryAfter = r) and this attempt fails
\* with another retryable error, with retries left, the wait that follows
\* is min(r * 1000 * multiplier, maxDelay), whatever initialDelay is and
\* however many failures came before (NaN when r is NaN).
C30_RateLimitReplacesBackoff ==
    [][(/\ pc = "calling"
        /\ lastError.cls = "RateLimitError"
        /\ pc' = "sleeping"
        /\ lastError'.cls # "RateLimitError")
       => LET r == lastError.retryAfter
              w == waits'[Len(waits')]
          IN  /\ Len(waits') = Len(waits) + 1
              /\ IF r.nan THEN w.nan
                 ELSE /\ ~w.nan
                      /\ w.v = Least(r.v * 1000 * multiplier(options),
                                     maxDelay(options))]_vars

\* two failures went before, the second a rate limit with retryAfter 1; the
\* third attempt failed with a server error and the wait is 1000 * 3
C30_Witness ==
    /\ pc = "sleeping"
    /\ initialDelay(options) = 500
    /\ multiplier(options) = 3
    /\ caught = <<"LinkedInError", "RateLimitError", "LinkedInError">>
    /\ waits = <<Num(500), Num(1000), Num(3000)>>
    /\ lastError.statusCode = 503

\* C28: parseExperience marks an entry current exactly when the position it
\* was made from has an end date neither under timePeriod nor on itself;
\* every entry of the experience returned is current iff its endDate is null.
C28_CurrentIffNoEndDate ==
    (Answered /\ outcome.ok /\ method.name \in {"getMe", "getProfile"})
    => LET positions ==
               SelectSeq(reply.e.included,
                         LAMBDA item : item.type.t = "string"
                                       /\ \E i \in 1..Len(item.type.s) :
                                             item.type.s[i] \in {"Position", "position"})
           experience == outcome.value.experience
       IN  /\ Len(experience) = Len(positions)
           /\ \A i \in 1..Len(experience) :
                 /\ experience[i].current
                       <=> (/\ positions[i].timePeriod.endDate.t # "object"
                            /\ positions[i].endDate.t # "object")
                 /\ experience[i].current <=> (experience[i].endDate.t = "null")

\* a career of three positions: two ended (one end under timePeriod, one on
\* the entity), the last with a null end is the current one
C28_Witness ==
    /\ Answered /\ outcome.ok /\ method.name = "getProfile"
    /\ Len(outcome.value.experience) = 3
    /\ outcome.value.experience[1].title = JsString(<<"Intern">>)
    /\ ~outcome.value.experience[1].current
    /\ outcome.value.experience[2].endDate = DateObject(JsNumber(2020), JsNumber(3))
    /\ ~outcome.value.experience[2].current
    /\ outcome.value.experience[3].current
    /\ outcome.value.experience[3].endDate = NullDate

\* C21: the URL of a list request carries start = options.start, or 0 when
\* start is omitted, and count = 100 for every count asked above 100, the
\* count asked for every count up to 100, and 10 when count is omitted.
C21_PaginationParams ==
    (method.name \in {"getFeed", "getConnections", "getInvitations",
                      "getConversations", "getNotifications", "searchJobs"})
    => LET asked == method.options
           url == requests[1].url
           omitted(v) == v.t \in {"undefined", "null"}
       IN  /\ Len(requests) = 1
           /\ url[3] = "?" /\ url[4] = "start=" /\ url[6] = "&count="
           /\ url[5] = IF omitted(asked.start) THEN "0" ELSE ToString(asked.start.n)
           /\ url[7] = IF omitted(asked.count) THEN "10"
                       ELSE IF asked.count.n > 100 THEN "100"
                       ELSE ToString(asked.count.n)

\* 101 entries asked from entry 20 on: 100 are requested
C21_Witness ==
    /\ method.name = "getConnections"
    /\ method.options = PaginationOptions(JsNumber(20), JsNumber(101))
    /\ SubSeq(requests[1].url, 3, 7) = <<"?", "start=", "20", "&count=", "100">>

\* C23: the csrf-token of a request is "ajax:" followed by the jsessionid
\* with every double quote removed; its cookie header is li_at=<li_at>;
\* JSESSIONID="<jsessionid without quotes>", the session id in one pair of
\* quotes whether or not it was given quoted, followed by li_mc, bcookie and
\* bscookie in this order, each only when it is present and not empty.
C23_HeadersFromCookies ==
    \A k \in 1..Len(requests) :
        LET cookies == client.cookies
            h == requests[k].headers
            bare == SelectSeq(cookies.jsessionid, LAMBDA c : c # "\"")
            li_mc == IF "li_mc" \in DOMAIN cookies /\ cookies.li_mc # ""
                     THEN <<"; li_mc=", cookies.li_mc>> ELSE <<>>
            bcookie == IF "bcookie" \in DOMAIN cookies /\ cookies.bcookie # ""
                       THEN <<"; bcookie=", cookies.bcookie>> ELSE <<>>
            bscookie == IF "bscookie" \in DOMAIN cookies /\ cookies.bscookie # ""
                        THEN <<"; bscookie=", cookies.bscookie>> ELSE <<>>
        IN  /\ h["csrf-token"] = <<"ajax:">> \o bare
            /\ \A i \in 1..Len(bare) : bare[i] # "\""
            /\ h["cookie"] = <<"li_at=", cookies.li_at, "; JSESSIONID=\"">> \o bare
                                \o <<"\"">> \o li_mc \o bcookie \o bscookie

\* a quoted session id with a quote inside, and all three further cookies
C23_Witness ==
    /\ Len(requests) = 1
    /\ client.cookies.jsessionid = <<"\"", "ajax:", "\"", "3", "\"">>
    /\ requests[1].headers["csrf-token"] = <<"ajax:", "ajax:", "3">>
    /\ requests[1].headers["cookie"] =
          <<"li_at=", "token-c", "; JSESSIONID=\"", "ajax:", "3", "\"",
            "; li_mc=", "mc-value", "; bcookie=", "bc-value",
            "; bscookie=", "bsc-value">>

(***************************************************************************)
(* Further properties of credential resolution (checked under AuthSpec).   *)
(***************************************************************************)
\* C24: every invocation of extractCookiesFromBrowser without a source, or
\* with source env or config, tries safari, chrome, firefox in this order,
\* stops at the first extractor that yields a pair and returns its pair;
\* with a browser as source it tries that extractor alone; it throws
\* CookieExtractionError when no extractor tried yields a pair or the
\* source is unknown.
C24_ExtractorOrder ==
    \A i \in 1..Len(Log) :
        LET e == Log[i]
            order == <<"safari", "chrome", "firefox">>
            hits == {k \in 1..3 : order[k] \in browsers}
            first == CHOOSE k \in hits : \A j \in hits : k <= j
        IN  /\ e.source \in {Undefined, "", "env", "config"} =>
                 /\ e.ok <=> hits # {}
                 /\ e.tried = IF hits # {} THEN SubSeq(order, 1, first) ELSE order
            /\ e.source \in {"safari", "chrome", "firefox"} =>
                 /\ e.tried = <<e.source>>
                 /\ e.ok <=> e.source \in browsers
            /\ e.source \notin {Undefined, "", "env", "config", "safari", "chrome",
                                "firefox"} =>
                 /\ e.tried = <<>>
                 /\ ~e.ok
                 /\ e.error.message[3] = "Unknown browser source."
            /\ e.ok => /\ i = Len(Log)
                       /\ ReturnedCookies(BrowserCookies(e.tried[Len(e.tried)]))
            /\ ~e.ok => e.error.cls = "CookieExtractionError"

(***************************************************************************)
(* Properties of the paging helpers (checked under ClientSpec).            *)
(***************************************************************************)
\* C22: for every paging window, hasNextPage returns true exactly when
\* start + count < total, nextPageStart returns start + count, and the
\* window after the call is the window before it.
C22_PagingWindow ==
    [][method'.name \in {"hasNextPage", "nextPageStart"} =>
       \A start \in 0..MaxPage, count \in 0..MaxPage, total \in 0..(2 * MaxPage) :
          LET window == [start |-> start, count |-> count, total |-> total]
          IN  /\ Paging("hasNextPage", window) =>
                    /\ outcome'.ok
                    /\ outcome'.value <=> start + count < total
                    /\ method'.options = window
              /\ Paging("nextPageStart", window) =>
                    /\ outcome'.ok
                    /\ outcome'.value = start + count
                    /\ method'.options = window
      ]_vars

\* the last page: 2 + 1 = 3 is not below the total 3
C22_Witness ==
    /\ method.name = "hasNextPage"
    /\ method.options = [start |-> 2, count |-> 1, total |-> 3]
    /\ outcome = Returned(FALSE)

(***************************************************************************)
(* Properties of the account functions (checked under ConfigSpec).         *)
(***************************************************************************)
\* C27: after every call of setAccount, removeAccount, setDefaultAccount or
\* migrateLegacyCredentials, the default account is undefined or the name of
\* an account in the accounts map, and the accounts map is undefined or
\* holds an account with the default account defined; a call that throws
\* leaves the config as it was.
C27_DefaultAccountExists ==
    [][/\ configCall'.threw => config' = config
       /\ config'.defaultAccount = Undefined
            \/ (config'.accounts.defined /\ config'.defaultAccount \in AccountKeys(config'))
       /\ ~config'.accounts.defined
            \/ (AccountKeys(config') # {} /\ config'.defaultAccount # Undefined)
      ]_vars

(***************************************************************************)
(* Properties of the mutating methods (checked under Spec).                *)
(***************************************************************************)
\* C25: a call of a mutating method runs in the retry loop with the default
\* options: it sends its request at most maxRetries + 1 = 4 times, sends it
\* again only when the send before failed with a retryable error (429, 5xx
\* or a transient network failure), and sends nothing more once it has
\* returned or thrown.
C25_MutationsRetried ==
    [][method'.name \in {"createPost", "comment", "react", "unreact",
                         "sendConnectionRequest", "withdrawConnectionRequest",
                         "respondToInvitation", "sendMessage"} =>
          /\ options' = NoOptions
          /\ calls' <= DEFAULT_MAX_RETRIES + 1
          /\ DEFAULT_MAX_RETRIES + 1 = 4
          /\ calls' \in {0, calls, calls + 1}
          /\ (calls' = calls + 1 /\ calls >= 1) =>
                /\ ~request(Url, resp).ok
                /\ StatedRetryable(request(Url, resp).error)
          /\ (pc \in {"returned", "thrown"} /\ method = method') => calls' = calls
      ]_vars

\* unreact sent four times: three retryable failures, then a success
C25_Witness ==
    /\ method.name = "unreact"
    /\ pc = "returned"
    /\ calls = 4
    /\ caught = <<"RateLimitError", "LinkedInError", "TypeError">>

(***************************************************************************)
(* Properties of parallel calls (checked under ParallelSpec).              *)
(***************************************************************************)
\* The delay a call holds when its k-th failed attempt starts its sleep, by
\* the failures of this call alone: the initial delay doubled after every
\* sleep, replaced by retryAfter seconds at a rate limit.
RECURSIVE OwnDelay(_, _)
OwnDelay(failures, k) ==
    LET error == request(Url, failures[k]).error
    IN  IF error.cls = "RateLimitError"
        THEN Times(error.retryAfter, Num(1000))
        ELSE IF k = 1 THEN Num(DEFAULT_INITIAL_DELAY)
             ELSE Times(OwnDelay(failures, k - 1), Num(DEFAULT_MULTIPLIER))

\* C26: under every interleaving of two parallel calls each call makes at
\* most maxRetries + 1 attempts, one per failure of its own and one for its
\* success, and each of its waits is what its own failures give: the
\* failures and rate limits of the other call take none of its retries and
\* change none of its waits.
C26_IndependentRetryState ==
    \A i \in 1..2 :
        LET me == parallel[i]
        IN  /\ me.calls <= DEFAULT_MAX_RETRIES + 1
            /\ me.calls = Len(me.caught) + (IF me.pc = "returned" THEN 1 ELSE 0)
            /\ me.attempt = Len(me.waits) - (IF me.pc = "sleeping" THEN 1 ELSE 0)
            /\ Len(me.waits) = IF me.pc = "thrown" THEN Len(me.caught) - 1
                               ELSE Len(me.caught)
            /\ \A k \in 1..Len(me.waits) :
                  me.waits[k] = MathMin(OwnDelay(me.caught, k), Num(DEFAULT_MAX_DELAY))
            /\ me.pc = "thrown" =>
                  \/ ~StatedRetryable(me.lastError)
                  \/ me.calls = DEFAULT_MAX_RETRIES + 1

\* call 1 sleeps for the third time after a 503, a rate limit of 120 s and
\* a rejected fetch, while call 2 has returned from its first attempt
C26_Witness ==
    /\ parallel[1].pc = "sleeping"
    /\ parallel[1].waits = <<Num(1000), Num(60000), Num(60000)>>
    /\ parallel[1].calls = 3
    /\ parallel[2].pc = "returned"
    /\ parallel[2].calls = 1
    /\ parallel[2].waits = <<>>

====
